---------------------------- MODULE Spec2Model ----------------------------
(***************************************************************************)
(* A model of the audio scheduler: the schedule engine (scheduler.c,       *)
(* cfg_handler.c, utils.c) and the FFmpeg/Pipewire player (fsp_player.c).  *)
(*                                                                         *)
(* Time is a count of seconds (time_t).  The model's time zone has no      *)
(* daylight saving, so localtime/mktime are the plain decomposition of a   *)
(* time_t into day, hour, minute, second and back.                         *)
(***************************************************************************)
EXTENDS Integers, Sequences, FiniteSets, TLC

(***************************************************************************)
(* Bounds of the model.                                                    *)
(***************************************************************************)
\* The largest number of sched_get_next calls in one behaviour of the engine
\* with a frozen configuration, of the burst scenario, and of the engine with
\* failing files and a config file that is rewritten.
MaxCalls == 5
MaxBurstCalls == 9
MaxEnvCalls == 3
\* The largest number of times the config file is rewritten on disk.
MaxTouches == 1
\* The largest window multiple N looked at by the burst-rate property.
MaxWindows == 3
MaxLoads == 3
\* The largest number of calls around the zone starts.
MaxZoneCalls == 3
\* The largest number of calls around midnight.
MaxReadyCalls == 3
\* The largest number of draws and rewrites of the playlist file.
MaxPlsOps == 4

(***************************************************************************)
(* struct tm, localtime(), mktime()                                        *)
(***************************************************************************)
SecsPerDay == 24 * 60 * 60

\* localtime(): the date part is kept as the day number, the rest as in
\* struct tm.
localtime(t) ==
    [ day  |-> t \div SecsPerDay,
      wday |-> ((t \div SecsPerDay) + 4) % 7,   \* 1 Jan 1970: a Thursday
      hour |-> (t % SecsPerDay) \div 3600,
      min  |-> (t % 3600) \div 60,
      sec  |-> t % 60 ]

\* mktime(): normalises out-of-range fields (tm_hour > 23, tm_min > 59), so
\* it is the weighted sum of the fields.
mktime(tm) == tm.day * SecsPerDay + tm.hour * 3600 + tm.min * 60 + tm.sec

\* strptime(s, "%T", tm) on a zeroed struct tm: only the time of day is set.
strptime(h, m, s) == [ day |-> 0, wday |-> 0, hour |-> h, min |-> m, sec |-> s ]

\* utils_tm_cleanup_date(): zero the date part.
utils_tm_cleanup_date(tm) == [ tm EXCEPT !.day = 0, !.wday = 0 ]

\* utils_compare_time(tm1, tm0, no_date): 1, -1 or 0 as tm1 is after, before
\* or at tm0.  (The write-back of the cleaned date into the caller's structs
\* does not change any later comparison and is not modelled.)
utils_compare_time(tm1, tm0, no_date) ==
    LET a1 == IF no_date THEN utils_tm_cleanup_date(tm1) ELSE tm1
        a0 == IF no_date THEN utils_tm_cleanup_date(tm0) ELSE tm0
        diff == mktime(a1) - mktime(a0)
    IN  IF diff > 0 THEN 1 ELSE IF diff < 0 THEN -1 ELSE 0

(***************************************************************************)
(* The configuration file on disk and the structures cfg_process builds    *)
(* from it (scheduler.h).  A playlist file's items are file names; a       *)
(* missing playlist (zone->fallback_pls == NULL, or no intermediate        *)
(* selected) is NullPls.  Playlist files are not rewritten in these        *)
(* specifications: only their stat() may fail.                             *)
(***************************************************************************)
NullPls ==
    [ null |-> TRUE, filepath |-> "", items |-> << >>, num_items |-> 0,
      shuffle |-> FALSE, curr_idx |-> 0 ]

\* cfg_get_pls(): a playlist as pls_process leaves it (curr_idx zeroed by the
\* memset, items in file order).
cfg_get_pls(path, files, shuffle) ==
    [ null |-> FALSE, filepath |-> path, items |-> files,
      num_items |-> Len(files), shuffle |-> shuffle, curr_idx |-> 0 ]

\* A cfg_get_ipls() that loads an intermediate with its burst spent.
cfg_get_ipls_spent(name, path, files, interval, num, curr_time) ==
    [ null |-> FALSE, filepath |-> path, items |-> files,
      num_items |-> Len(files), shuffle |-> FALSE, curr_idx |-> 0,
      name |-> name, sched_interval_mins |-> interval,
      last_scheduled |-> curr_time, num_sched_items |-> num,
      sched_items_pending |-> 0 ]

\* cfg_get_ipls(): an intermediate playlist is a playlist plus its schedule;
\* a fresh one has a full burst pending and was "last scheduled" at load time.
cfg_get_ipls(name, path, files, interval, num, curr_time) ==
    [ null |-> FALSE, filepath |-> path, items |-> files,
      num_items |-> Len(files), shuffle |-> FALSE, curr_idx |-> 0,
      name |-> name, sched_interval_mins |-> interval,
      last_scheduled |-> curr_time, num_sched_items |-> num,
      sched_items_pending |-> num ]

\* The zones a configuration file may declare, by start time: the Zone
\* element with Start="HH:00:00".  cfg_get_zone() builds the zone.
cfg_get_zone(h, curr_time) ==
    CASE h = 0 ->
           [ name |-> "Z0", start_time |-> strptime(0, 0, 0),
             main_pls |-> cfg_get_pls("z0main.m3u", << "a", "b" >>, TRUE),
             fallback_pls |-> cfg_get_pls("z0fall.m3u", << "c" >>, FALSE),
             num_others |-> 0, others |-> << >> ]
      [] h = 6 ->
           [ name |-> "Z1", start_time |-> strptime(6, 0, 0),
             main_pls |-> cfg_get_pls("z1main.m3u", << "a", "b", "c" >>, FALSE),
             fallback_pls |-> cfg_get_pls("z1fall.m3u", << "c" >>, FALSE),
             num_others |-> 1,
             others |-> << cfg_get_ipls("I", "jingles.m3u", << "j", "k" >>,
                                        10, 3, curr_time) >> ]
      [] OTHER ->
           [ name |-> "Z2", start_time |-> strptime(h, 0, 0),
             main_pls |-> cfg_get_pls("z2main.m3u", << "a", "b" >>, FALSE),
             fallback_pls |-> NullPls,
             num_others |-> 2,
             others |-> << cfg_get_ipls("ID", "ids.m3u", << "j" >>,
                                        1, 1, curr_time),
                           cfg_get_ipls("ADS", "ads.m3u", << "k", "j" >>,
                                        2, 2, curr_time) >> ]

\* The hours at which a configuration file of the model may start a zone.
StartHours == { 0, 6, 18 }

\* The Start hours of the Zone elements of a day, in file order, in the
\* configuration files of the model.
ConfigContents ==
    { << a >> : a \in StartHours } \cup
    { << a, b >> : a \in StartHours, b \in StartHours } \cup
    { << 0, 6, 18 >> }

\* A day element of the file: whether the element is there, and its Zone
\* elements in file order, each with its Start hour and whether it has a
\* Main element.  SameEveryDay(starts) is the week whose seven days all hold
\* complete zones with the given Start hours.
DayElement(starts) ==
    [ present |-> TRUE,
      zones |-> [ i \in 1..Len(starts) |-> [ h |-> starts[i], main |-> TRUE ] ] ]
SameEveryDay(starts) == [ d \in 0..6 |-> DayElement(starts) ]

\* cfg_get_day_schedule(): the zones in file order; fails (an empty result)
\* when a zone has no main playlist, when a zone does not start strictly
\* after its predecessor, and when the day has no zone.
cfg_get_day_schedule(zs, curr_time) ==
    LET zones == [ i \in 1..Len(zs) |-> cfg_get_zone(zs[i].h, curr_time) ]
        complete == \A i \in 1..Len(zs) : zs[i].main
        ordered == \A i \in 2..Len(zs) :
                      utils_compare_time(zones[i].start_time,
                                         zones[i-1].start_time, TRUE) > 0
    IN  IF Len(zs) > 0 /\ complete /\ ordered THEN zones ELSE << >>

\* A cfg_get_week_schedule() without the final check that all seven days
\* are filled.
cfg_get_week_schedule_unchecked(week, curr_time) ==
    LET days == [ d \in 1..7 |->
                    IF week[d - 1].present
                    THEN cfg_get_day_schedule(week[d - 1].zones, curr_time)
                    ELSE << >> ]
    IN  IF \E d \in 1..7 : week[d - 1].present /\ days[d] = << >>
        THEN << >> ELSE days

\* cfg_get_week_schedule(): the day schedules by weekday, Sunday first;
\* fails (an empty result) when a day element fails to parse and when a day
\* of the week has no element.
cfg_get_week_schedule(week, curr_time) ==
    LET days == [ d \in 1..7 |->
                    IF week[d - 1].present
                    THEN cfg_get_day_schedule(week[d - 1].zones, curr_time)
                    ELSE << >> ]
    IN  IF \E d \in 1..7 : days[d] = << >> THEN << >> ELSE days

\* cfg_process(): parse the file into cfg.  The mtime is stored before the
\* parse; a failed parse ends in cfg_cleanup(), which leaves cfg->ws NULL.
cfg_process(cfg, file, curr_time) ==
    LET ws == cfg_get_week_schedule(file.week, curr_time)
    IN  IF file.mtime = 0
        THEN [ ret |-> -1, cfg |-> [ cfg EXCEPT !.ws_null = TRUE, !.days = << >> ] ]
        ELSE IF ~file.wellformed \/ ws = << >>
        THEN [ ret |-> -1,
               cfg |-> [ last_mtime |-> file.mtime, ws_null |-> TRUE, days |-> << >> ] ]
        ELSE [ ret |-> 0,
               cfg |-> [ last_mtime |-> file.mtime, ws_null |-> FALSE,
                         days |-> ws ] ]

\* A cfg_reload_if_needed() that keeps the old week schedule when the new
\* file does not parse.
cfg_reload_if_needed_keep(cfg, file, curr_time) ==
    IF file.mtime = 0 THEN [ ret |-> -1, cfg |-> cfg ]
    ELSE IF file.mtime = cfg.last_mtime THEN [ ret |-> 0, cfg |-> cfg ]
    ELSE IF cfg_process(cfg, file, curr_time).ret = 0
    THEN cfg_process(cfg, file, curr_time)
    ELSE [ ret |-> -1, cfg |-> [ cfg EXCEPT !.last_mtime = file.mtime ] ]

\* cfg_reload_if_needed(): nothing when the mtime is unchanged; otherwise the
\* old week schedule is freed first and the file parsed again.
cfg_reload_if_needed(cfg, file, curr_time) ==
    IF file.mtime = 0 THEN [ ret |-> -1, cfg |-> cfg ]
    ELSE IF file.mtime = cfg.last_mtime THEN [ ret |-> 0, cfg |-> cfg ]
    ELSE cfg_process([ cfg EXCEPT !.ws_null = TRUE, !.days = << >> ], file, curr_time)

(***************************************************************************)
(* The environment of one sched_get_next call: which playlist files cannot *)
(* be stat()ed (utils_get_mtime returns 0), the state of each audio file   *)
(* (readable and decodable, not readable, or readable but rejected by the  *)
(* strict probe of mldr_init_audiofile), and the random numbers a          *)
(* re-shuffle draws, given as the slot each item lands in.                 *)
(***************************************************************************)
Files == { "a", "b", "c", "j", "k" }
FileStates == { "ok", "unreadable", "noprobe" }
\* The longest playlist with Shuffle="true" in the model's configurations.
MaxShuffled == 2
Perms == { p \in [ 1..MaxShuffled -> 1..MaxShuffled ] :
              \A i, j \in 1..MaxShuffled : i # j => p[i] # p[j] }

\* utils_is_readable_file() and mldr_init_audiofile(.., strict) on a file.
utils_is_readable_file(env, f) == env.fstat[f] # "unreadable"
mldr_init_audiofile(env, f) == IF env.fstat[f] = "ok" THEN 0 ELSE -1

\* pls_shuffle(): item i goes to the free slot the random numbers pick, so
\* the result is the items under a permutation of the slots.  perm orders
\* the slots 1..MaxShuffled; for n items their order among 1..n is used.
pls_shuffle(pls, perm) ==
    LET n == pls.num_items
        slot == SelectSeq([ i \in 1..MaxShuffled |-> perm[i] ], LAMBDA x : x <= n)
    IN  [ pls EXCEPT !.items =
            [ k \in 1..n |-> pls.items[CHOOSE i \in 1..n : slot[i] = k] ] ]

\* pls_reload_if_needed(): fails when the playlist file cannot be stat()ed;
\* the file is otherwise unchanged, so there is nothing to reload.
pls_reload_if_needed(pls, env) == IF pls.filepath \in env.nostat THEN -1 ELSE 0

\* The for loop of sched_get_next_item (scheduler.c:80-94), from index idx:
\* an unreadable item is skipped, a readable one moves the cursor past it
\* and is returned if the probe accepts it.
RECURSIVE sched_scan_items(_, _, _)
sched_scan_items(pls, idx, env) ==
    IF idx >= pls.num_items THEN [ ret |-> -1, pls |-> pls, file |-> "" ]
    ELSE LET next == pls.items[idx + 1]
         IN  IF utils_is_readable_file(env, next)
             THEN LET moved == [ pls EXCEPT !.curr_idx = idx + 1 ]
                  IN  IF mldr_init_audiofile(env, next) = 0
                      THEN [ ret |-> 0, pls |-> moved, file |-> next ]
                      ELSE sched_scan_items(moved, idx + 1, env)
             ELSE sched_scan_items(pls, idx + 1, env)

\* sched_get_next_item(): the next playable item of a playlist.
sched_get_next_item(pls, env) ==
    IF pls.null THEN [ ret |-> -1, pls |-> pls, file |-> "" ]
    ELSE IF pls_reload_if_needed(pls, env) < 0
    THEN [ ret |-> -1, pls |-> pls, file |-> "" ]
    ELSE LET wrapped ==
               IF pls.curr_idx + 1 >= pls.num_items
               THEN LET reset == [ pls EXCEPT !.curr_idx = 0 ]
                    IN  IF pls.shuffle THEN pls_shuffle(reset, env.perm) ELSE reset
               ELSE pls
         IN  sched_scan_items(wrapped, wrapped.curr_idx, env)

\* A sched_is_ipls_ready() that is ready from the instant last_scheduled +
\* interval on, not only after it.
sched_is_ipls_ready_at(ipls, sched_time) ==
    sched_time >= ipls.last_scheduled + ipls.sched_interval_mins * 60

\* A sched_is_ipls_ready() that compares times of day only (no_date set).
sched_is_ipls_ready_tod(ipls, sched_time) ==
    LET tm_curr == localtime(sched_time)
        tm_last == localtime(ipls.last_scheduled)
        mins == tm_last.min + ipls.sched_interval_mins
        ipls_rdy_tm == [ tm_last EXCEPT !.hour = tm_last.hour + (mins \div 60),
                                        !.min = mins % 60 ]
    IN  utils_compare_time(tm_curr, ipls_rdy_tm, TRUE) > 0

\* sched_is_ipls_ready(): the interval is added to the minutes of the last
\* scheduled time and the two full dates are compared.
sched_is_ipls_ready(ipls, sched_time) ==
    LET tm_curr == localtime(sched_time)
        tm_last == localtime(ipls.last_scheduled)
        mins == tm_last.min + ipls.sched_interval_mins
        ipls_rdy_tm == [ tm_last EXCEPT !.hour = tm_last.hour + (mins \div 60),
                                        !.min = mins % 60 ]
    IN  utils_compare_time(tm_curr, ipls_rdy_tm, FALSE) > 0

\* The zone lookup of sched_get_next (scheduler.c:146-163): backwards from
\* zone i (0-based), the first zone the comparison accepts; below 0 when
\* there is none.
sched_zone_matches(tm, zn) == utils_compare_time(tm, zn.start_time, TRUE) > 0

RECURSIVE sched_find_zone(_, _, _)
sched_find_zone(zones, i, tm) ==
    IF i < 0 THEN -1
    ELSE IF sched_zone_matches(tm, zones[i + 1]) THEN i
    ELSE sched_find_zone(zones, i - 1, tm)

\* A lookup that, finding no zone, takes the last zone of the day.
sched_zone_or_last(found, num_zones) ==
    IF found < 0 THEN num_zones - 1 ELSE found

\* The zone used (scheduler.c:159-163): the first zone of the day when the
\* lookup found none.
sched_zone_or_first(found, num_zones) ==
    IF found < 0 THEN 0 ELSE found

\* An intermediate-playlist loop without the "continue" of an exhausted
\* burst: the first ready intermediate is selected, exhausted or not.
RECURSIVE sched_pick_ipls_exhausted(_, _, _)
sched_pick_ipls_exhausted(others, i, sched_time) ==
    IF i >= Len(others) THEN [ others |-> others, sel |-> -1 ]
    ELSE LET ipls == others[i + 1]
         IN  IF ~sched_is_ipls_ready(ipls, sched_time)
             THEN sched_pick_ipls_exhausted(others, i + 1, sched_time)
             ELSE [ others |-> [ others EXCEPT ![i + 1].sched_items_pending =
                                    (IF ipls.sched_items_pending = -1
                                     THEN ipls.num_sched_items
                                     ELSE ipls.sched_items_pending) - 1 ],
                    sel |-> i ]

\* An intermediate-playlist loop that never re-arms the burst: the counter of
\* a ready intermediate is decremented unless it is 0.
RECURSIVE sched_pick_ipls_norearm(_, _, _)
sched_pick_ipls_norearm(others, i, sched_time) ==
    IF i >= Len(others) THEN [ others |-> others, sel |-> -1 ]
    ELSE LET ipls == others[i + 1]
         IN  IF ~sched_is_ipls_ready(ipls, sched_time)
             THEN sched_pick_ipls_norearm(others, i + 1, sched_time)
             ELSE IF ipls.sched_items_pending = 0
             THEN sched_pick_ipls_norearm(
                    [ others EXCEPT ![i + 1].sched_items_pending = -1,
                                    ![i + 1].last_scheduled = sched_time ],
                    i + 1, sched_time)
             ELSE [ others |-> [ others EXCEPT ![i + 1].sched_items_pending =
                                                  ipls.sched_items_pending - 1 ],
                    sel |-> i ]

\* The intermediate-playlist loop of sched_get_next (scheduler.c:169-191),
\* from index i (0-based): sel is the index of the intermediate selected
\* (the loop's break), -1 when the loop runs out.
RECURSIVE sched_pick_ipls(_, _, _)
sched_pick_ipls(others, i, sched_time) ==
    IF i >= Len(others) THEN [ others |-> others, sel |-> -1 ]
    ELSE LET ipls == others[i + 1]
         IN  IF ~sched_is_ipls_ready(ipls, sched_time)
             THEN sched_pick_ipls(others, i + 1, sched_time)
             ELSE IF ipls.sched_items_pending = -1
             THEN [ others |-> [ others EXCEPT ![i + 1].sched_items_pending =
                                                  ipls.num_sched_items - 1 ],
                    sel |-> i ]
             ELSE IF ipls.sched_items_pending = 0
             THEN sched_pick_ipls(
                    [ others EXCEPT ![i + 1].sched_items_pending = -1,
                                    ![i + 1].last_scheduled = sched_time ],
                    i + 1, sched_time)
             ELSE [ others |-> [ others EXCEPT ![i + 1].sched_items_pending =
                                                  ipls.sched_items_pending - 1 ],
                    sel |-> i ]

\* What a sched_get_next call did, for the properties: the result of the
\* reload step and whether it parsed the file, the zone used (0-based, -1 when none was reached), whether
\* the lookup found no zone and fell back to the first, the intermediate
\* selected (-1: none), what sched_get_next_item makes of each source on this
\* call (can and canfile: intermediate, main, fallback), the sources the call went
\* through, and the source and file of the item returned.
NoCall ==
    [ ret |-> 0, crash |-> FALSE, reload |-> 0, parsed |-> FALSE,
      sched_time |-> 0, zone |-> -1, nozone |-> FALSE, ipls |-> -1,
      can |-> << >>, canfile |-> << >>, tried |-> << >>,
      src |-> "none", file |-> "" ]

\* A source order that gives up after the main playlist.
sched_try_sources_nofallback(r1, r2, r3) ==
    IF r1 = 0 THEN << "ipls" >> ELSE << "ipls", "main" >>

\* The order of the sources in sched_get_next (scheduler.c:193-213): the
\* selected intermediate, then the main playlist, then the fallback.
sched_try_sources(r1, r2, r3) ==
    IF r1 = 0 THEN << "ipls" >>
    ELSE IF r2 = 0 THEN << "ipls", "main" >>
    ELSE << "ipls", "main", "fallback" >>

\* The result at the done label (scheduler.c:215-224): the last source tried
\* decides.
sched_done(tried, r1, r2, r3) ==
    LET last == tried[Len(tried)]
    IN  IF last = "ipls" THEN r1 ELSE IF last = "main" THEN r2 ELSE r3

\* F(v), with v computed once (a local variable of the C function).
With(v, F(_)) == CHOOSE y \in { F(x) : x \in { v } } : TRUE

\* sched_get_next() from the source lookups on (scheduler.c:193-225): r1, r2,
\* r3 are what sched_get_next_item makes of the selected intermediate, the
\* main and the fallback playlist; a playlist is touched only if it is tried.
sched_get_item(cfg, base, wday, found, pick, r1, r2, r3) ==
    LET zi == sched_zone_or_first(found, Len(cfg.days[wday + 1]))
        zn == cfg.days[wday + 1][zi + 1]
        tried == sched_try_sources(r1.ret, r2.ret, r3.ret)
        ret == sched_done(tried, r1.ret, r2.ret, r3.ret)
        last == tried[Len(tried)]
        zn1 == [ zn EXCEPT
                   !.others = IF pick.sel >= 0
                              THEN [ pick.others EXCEPT ![pick.sel + 1] = r1.pls ]
                              ELSE pick.others,
                   !.main_pls = IF Len(tried) >= 2 THEN r2.pls ELSE @,
                   !.fallback_pls = IF Len(tried) >= 3 THEN r3.pls ELSE @ ]
    IN  [ cfg |-> [ cfg EXCEPT !.days[wday + 1][zi + 1] = zn1 ],
          call |-> [ base EXCEPT
                       !.ret = ret, !.zone = zi, !.nozone = (found < 0),
                       !.ipls = pick.sel,
                       !.can = << r1.ret, r2.ret, r3.ret >>,
                       !.canfile = << r1.file, r2.file, r3.file >>,
                       !.tried = tried,
                       !.src = IF ret = 0 THEN last ELSE "none",
                       !.file = IF ret # 0 THEN ""
                                ELSE IF last = "ipls" THEN r1.file
                                ELSE IF last = "main" THEN r2.file
                                ELSE r3.file ] ]

\* sched_get_next() from the zone lookup on (scheduler.c:137-191): found is
\* the zone the backwards lookup stops at, the first zone is used when it
\* stops at none; then the intermediate-playlist loop.
sched_in_zone(cfg, base, wday, found, sched_time, env) ==
    LET zn == cfg.days[wday + 1][sched_zone_or_first(found, Len(cfg.days[wday + 1])) + 1]
    IN  With(sched_pick_ipls(zn.others, 0, sched_time), LAMBDA pick :
        With(sched_get_next_item(
               IF pick.sel >= 0 THEN pick.others[pick.sel + 1] ELSE NullPls, env),
             LAMBDA r1 :
        With(sched_get_next_item(zn.main_pls, env), LAMBDA r2 :
        With(sched_get_next_item(zn.fallback_pls, env), LAMBDA r3 :
           sched_get_item(cfg, base, wday, found, pick, r1, r2, r3)))))

\* sched_get_next() after the reload step rl (scheduler.c:131-157).  A call
\* that finds cfg->ws NULL dereferences it (scheduler.c:138-139): crash.
sched_after_reload(rl, parsed, tm, sched_time, env) ==
    LET base == [ NoCall EXCEPT !.sched_time = sched_time, !.reload = rl.ret,
                                !.parsed = parsed ]
    IN  IF rl.ret < 0 THEN [ cfg |-> rl.cfg, call |-> [ base EXCEPT !.ret = -1 ] ]
        ELSE IF rl.cfg.ws_null
        THEN [ cfg |-> rl.cfg, call |-> [ base EXCEPT !.ret = -1, !.crash = TRUE ] ]
        ELSE With(sched_find_zone(rl.cfg.days[tm.wday + 1],
                                  Len(rl.cfg.days[tm.wday + 1]) - 1, tm),
                  LAMBDA found :
                     sched_in_zone(rl.cfg, base, tm.wday, found, sched_time, env))

\* sched_get_next(): the whole call.  cfg is the scheduler's config, file the
\* config file on disk, curr_time the wall clock (used by a reload).
sched_get_next(cfg, file, sched_time, curr_time, env) ==
    With(cfg_reload_if_needed(cfg, file, curr_time), LAMBDA rl :
    With(localtime(sched_time), LAMBDA tm :
       sched_after_reload(rl, file.mtime # 0 /\ file.mtime # cfg.last_mtime,
                          tm, sched_time, env)))

(***************************************************************************)
(* The playlist loader with a playlist file that is rewritten on disk:     *)
(* pls_handler.c.  A playlist file is its mtime, its type (by extension),  *)
(* whether a .pls file starts with the [playlist] header, and its entry    *)
(* lines (File<n>= lines of a .pls, non-comment lines of a .m3u), each the *)
(* name of an audio file.  struct playlist keeps the items array as a      *)
(* sequence of slots, a slot being a file name and whether the string was  *)
(* freed; items_ptr tells whether pls->items is NULL, points to a live     *)
(* array or points to a freed one.  Shuffle is off in these playlists.     *)
(*                                                                         *)
(* Using freed memory is undefined.  ub is what the build makes of it in   *)
(* one operation: "crash" (the allocator or the access aborts the          *)
(* process), "stale" (the freed memory still holds the old content) or     *)
(* "garbage" (the freed strings no longer name a file).                    *)
(***************************************************************************)
TYPE_PLS == 1
TYPE_M3U == 2

UBOutcomes == { "crash", "stale", "garbage" }

\* The audio files on disk for the playlist loader: "k" cannot be read.
PlsEnv ==
    [ nostat |-> { }, cfg_nostat |-> FALSE,
      fstat |-> [ f \in Files |-> IF f = "k" THEN "unreadable" ELSE "ok" ],
      perm |-> [ i \in 1..MaxShuffled |-> i ] ]

\* struct playlist after the memset of cfg_get_pls (cfg_handler.c:252).
ZeroedPls ==
    [ shuffle |-> FALSE, last_mtime |-> 0, curr_idx |-> 0, num_items |-> 0,
      items |-> << >>, items_ptr |-> "null" ]

\* The entry lines of a playlist file that pass utils_is_readable_file.
ReadableEntries(lines) ==
    SelectSeq(lines, LAMBDA f : utils_is_readable_file(PlsEnv, f))

\* pls_files_cleanup_internal(): frees the num_items strings and the array,
\* and leaves pls->items and pls->num_items to the caller.  hit: memory was
\* freed a second time.
pls_files_cleanup_internal(pls) ==
    IF pls.items_ptr = "null" THEN [ pls |-> pls, hit |-> FALSE ]
    ELSE [ pls |-> [ pls EXCEPT
                       !.items = [ i \in 1..Len(pls.items) |->
                                     [ pls.items[i] EXCEPT !.freed = TRUE ] ],
                       !.items_ptr = "freed" ],
           hit |-> pls.items_ptr = "freed"
                     \/ \E i \in 1..Len(pls.items) : pls.items[i].freed ]

\* pls_files_cleanup(): nothing more; pls->items keeps pointing to the freed
\* array and pls->num_items keeps its value.
pls_files_cleanup(pls) == pls_files_cleanup_internal(pls)

\* pls_add_file(): an unreadable entry is skipped; a readable one is copied
\* and appended with realloc(*files, (*num_files + 1) * sizeof(char*)).
\* hit: realloc was given a freed array.
pls_add_file(pls, filepath) ==
    IF ~utils_is_readable_file(PlsEnv, filepath) THEN [ pls |-> pls, hit |-> FALSE ]
    ELSE [ pls |-> [ pls EXCEPT
                       !.items = Append(pls.items, [ name |-> filepath, freed |-> FALSE ]),
                       !.num_items = pls.num_items + 1,
                       !.items_ptr = "live" ],
           hit |-> pls.items_ptr = "freed" ]

RECURSIVE pls_add_lines(_, _, _)
pls_add_lines(r, lines, i) ==
    IF i > Len(lines) THEN r
    ELSE LET a == pls_add_file(r.pls, lines[i])
         IN  pls_add_lines([ pls |-> a.pls, hit |-> r.hit \/ a.hit ], lines, i + 1)

\* The cleanup label of pls_process on failure (pls_handler.c:291-295).
pls_process_failed(pls) ==
    LET c == pls_files_cleanup_internal(pls)
    IN  [ ret |-> -1, hit |-> c.hit,
          pls |-> [ c.pls EXCEPT !.num_items = 0, !.items = << >> ] ]

\* pls_process(): ret keeps the type code of pls_check_type until a
\* pls_add_file call overwrites it, and pls_add_file returns 0 also for an
\* entry it skips; the entries are appended to whatever pls->items and
\* pls->num_items hold on entry.
pls_process(pls, file) ==
    LET stored == [ pls EXCEPT !.last_mtime = file.mtime ]
    IN  IF file.mtime = 0 THEN pls_process_failed(pls)
        ELSE IF file.type = TYPE_PLS /\ ~file.header THEN pls_process_failed(stored)
        ELSE LET r == pls_add_lines([ pls |-> stored, hit |-> FALSE ], file.lines, 1)
             IN  [ ret |-> IF Len(file.lines) = 0 THEN file.type ELSE 0,
                   hit |-> r.hit, pls |-> r.pls ]

\* pls_reload_if_needed() on a playlist file that may have been rewritten:
\* parsed tells whether pls_process ran.
pls_reload(pls, file) ==
    IF file.mtime = 0 THEN [ ret |-> -1, hit |-> FALSE, pls |-> pls, parsed |-> FALSE ]
    ELSE IF file.mtime = pls.last_mtime
    THEN [ ret |-> 0, hit |-> FALSE, pls |-> pls, parsed |-> FALSE ]
    ELSE LET c == pls_files_cleanup(pls)
             r == pls_process(c.pls, file)
         IN  [ ret |-> r.ret, hit |-> c.hit \/ r.hit, pls |-> r.pls, parsed |-> TRUE ]

\* The for loop of sched_get_next_item (scheduler.c:80-94) over the slots:
\* reading a freed slot, or any slot of a freed array, is undefined.
RECURSIVE sched_scan_slots(_, _, _, _)
sched_scan_slots(pls, idx, ub, hit) ==
    IF idx >= pls.num_items
    THEN [ ret |-> -1, pls |-> pls, file |-> "", hit |-> hit, stale |-> FALSE ]
    ELSE LET slot == pls.items[idx + 1]
             bad == slot.freed \/ pls.items_ptr = "freed"
             moved == [ pls EXCEPT !.curr_idx = idx + 1 ]
         IN  IF bad /\ ub = "crash"
             THEN [ ret |-> -1, pls |-> pls, file |-> "", hit |-> TRUE, stale |-> FALSE ]
             ELSE IF bad /\ ub = "garbage"
             THEN sched_scan_slots(pls, idx + 1, ub, TRUE)
             ELSE IF ~utils_is_readable_file(PlsEnv, slot.name)
             THEN sched_scan_slots(pls, idx + 1, ub, hit \/ bad)
             ELSE IF mldr_init_audiofile(PlsEnv, slot.name) = 0
             THEN [ ret |-> 0, pls |-> moved, file |-> slot.name,
                    hit |-> hit \/ bad, stale |-> bad ]
             ELSE sched_scan_slots(moved, idx + 1, ub, hit \/ bad)

\* What a playlist operation did, for the properties: the operation, its
\* result, the result of the reload step and whether it parsed the file,
\* the cursor as the reload step left it, the item drawn and
\* whether it was read from freed memory, whether undefined behaviour was
\* met and whether the process crashed on it.
NoPlsOp ==
    [ op |-> "none", ret |-> 0, reload |-> 0, parsed |-> FALSE, cursor |-> 0,
      file |-> "", stale |-> FALSE, ub |-> FALSE, crash |-> FALSE ]

\* sched_get_next_item() on such a playlist: reload, wrap, scan.
sched_next_item(pls, file, ub) ==
    LET rl == pls_reload(pls, file)
        base == [ NoPlsOp EXCEPT !.op = "next", !.reload = rl.ret,
                                 !.parsed = rl.parsed, !.cursor = rl.pls.curr_idx,
                                 !.ub = rl.hit ]
    IN  IF rl.hit /\ ub = "crash"
        THEN [ pls |-> pls, op |-> [ base EXCEPT !.ret = -1, !.crash = TRUE ] ]
        ELSE IF rl.ret < 0
        THEN [ pls |-> rl.pls, op |-> [ base EXCEPT !.ret = -1 ] ]
        ELSE LET wrapped == IF rl.pls.curr_idx + 1 >= rl.pls.num_items
                            THEN [ rl.pls EXCEPT !.curr_idx = 0 ] ELSE rl.pls
                 sc == sched_scan_slots(wrapped, wrapped.curr_idx, ub, FALSE)
             IN  [ pls |-> sc.pls,
                   op |-> [ base EXCEPT !.ret = sc.ret, !.file = sc.file,
                                        !.stale = sc.stale,
                                        !.ub = rl.hit \/ sc.hit,
                                        !.crash = sc.hit /\ ub = "crash" ] ]

(***************************************************************************)
(* State of the schedule engine and of its caller.                         *)
(***************************************************************************)
VARIABLES
    cfgfile,    \* the config file on disk: mtime, well-formedness, zones
    cfg,        \* struct config: last_mtime, ws (ws_null, days)
    now,        \* wall clock, time(NULL)
    crashed,    \* a call dereferenced a NULL week schedule
    call,       \* what the last sched_get_next call did
    ncalls,     \* calls made so far
    touches,    \* config file rewrites so far
    mono,       \* monitored: no reload yet, the targets never decreased
    fires,      \* <<zone, index, t>>: an intermediate's last_scheduled became t
    draws,      \* <<zone, index, t>> per item an intermediate returned, in order
    scen        \* calls so far are the first scen calls of BurstScript (-1: not)

schedVars ==
    << cfgfile, cfg, now, crashed, call, ncalls, touches, mono,
       fires, draws, scen >>

(***************************************************************************)
(* State of the player (struct fsp_player) and of the threads around it.   *)
(***************************************************************************)
VARIABLES
    state,      \* player->state
    fader,      \* player->fader: active, samples_out, gain (in 1/96000ths)
    ring,       \* bytes readable in player->ring
    current,    \* player->current: loaded, frames left to decode
    next,       \* player->next
    loop_quit,  \* pw_main_loop_quit was called
    stream,     \* the stream exists, the sink calls fsp_on_process
    freed,      \* fsp_cleanup released current/next, ring, mutexes
    main_pc,    \* position of main()
    sig_pc,     \* position of the signal dispatcher thread
    sched_pc,   \* position of the scheduler thread
    dec_pc,     \* position of the decoder thread
    stopper,    \* per caller: position inside fsp_stop
    nloads,     \* fsp_load_next_file calls so far
    set_from,   \* the state overwritten by the last pause/resume/start write
    fade,       \* the state fade since its start: dir, from, mono, last, done
    out_gain,   \* gain of the last buffer the callback emitted (0: silence)
    quiet,      \* the state became Paused and no resume request came since
    stop_ret,   \* the last return of fsp_stop: caller, workers still running
    overrun,    \* a ring buffer write stored fewer bytes than given
    underread   \* a ring buffer read returned fewer bytes than asked

playerVars ==
    << state, fader, ring, current, next, loop_quit, stream, freed,
       main_pc, sig_pc, sched_pc, dec_pc, stopper, nloads,
       set_from, fade, out_gain, quiet, stop_ret, overrun, underread >>

(***************************************************************************)
(* State of the playlist loader: one playlist and its file.                *)
(***************************************************************************)
VARIABLES
    plsfile,    \* the playlist file on disk: mtime, type, header, lines
    pls,        \* struct playlist
    plsop,      \* what the last playlist operation did
    nplsops     \* draws and rewrites so far

plsVars == << plsfile, pls, plsop, nplsops >>

\* A playlist file of two readable entries.
PlainPlsFile ==
    [ mtime |-> 1, type |-> TYPE_M3U, header |-> TRUE, lines |-> << "a", "b" >> ]

\* Before cfg_get_pls calls pls_process: the struct is zeroed.
InitPlsAt(files) ==
    /\ plsfile \in files
    /\ pls = ZeroedPls
    /\ plsop = NoPlsOp
    /\ nplsops = 0

InitPls == InitPlsAt({ PlainPlsFile })

(***************************************************************************)
(* State of main(), of the signal dispatcher and of the metadata endpoint: *)
(* main.c, sig_dispatcher.c, meta_handler.c.                               *)
(***************************************************************************)
VARIABLES
    mn,         \* main(): position, ret, whether an init step failed, and
                \* whether fsp_init's own cleanup already freed the player
    sd,         \* struct sig_dispatcher: thread, running, handlers, and the
                \* stop signal (si.ssi_signo) being dispatched
    mh          \* struct meta_handler: running, server thread

mainVars == << mn, sd, mh >>

Units == { "PLAYER", "META" }
StopSignals == { "SIGINT", "SIGTERM" }
AllSignals == { "SIGINT", "SIGTERM", "SIGUSR1", "SIGUSR2", "SIGHUP" }

\* main() about to call fsp_start: the dispatcher thread waits for signals,
\* both units are registered, the metadata endpoint serves.
InitMainStarted ==
    /\ mn = [ pc |-> "fsp_start", ret |-> 0, failed |-> FALSE, freed |-> FALSE ]
    /\ sd = [ thread |-> "run", running |-> TRUE, handlers |-> Units,
              signo |-> "none" ]
    /\ mh = [ running |-> TRUE, thread |-> "run" ]

\* mh_stop(): clear the running flag and join the server thread, which
\* leaves its loop within one epoll timeout.
mh_stop(m) ==
    [ m EXCEPT !.running = FALSE,
               !.thread = IF m.thread = "run" THEN "done" ELSE m.thread ]

\* A metadata handler that stops the endpoint on every signal.
mh_signal_handler_any(signo, m) == mh_stop(m)

\* mh_signal_handler(): SIGINT and SIGTERM stop the endpoint, every other
\* signal is ignored.
mh_signal_handler(signo, m) ==
    IF signo \in StopSignals THEN mh_stop(m) ELSE m

(***************************************************************************)
(* The metadata endpoint's response cache (meta_handler.c) next to what    *)
(* the player would report, and the wall clock.                            *)
(***************************************************************************)
VARIABLES
    wall,       \* time(NULL)
    meta,       \* struct meta_handler: state_cb, last_update, next_update,
                \* response, and the static cur/next of mh_update_response
    track,      \* the player as fsp_mh_cb sees it: current, next, elapsed
    sent        \* the responses sent so far: second, body, and the body a
                \* regeneration at that moment would have produced

metaVars == << wall, meta, track, sent >>

\* One call of pls_shuffle, iteration by iteration (pls_handler.c:127-171).
VARIABLES
    shuf        \* pc, the items before the call, pls->items, temp,
                \* items_idx, remaining, ret

\* One track from fsp_audiofile_ctx_init to its last decoded sample
\* (fsp_player.c:55-97, 340-372, 517-562).
VARIABLES
    trk         \* pc, info, the samples the file decodes to, replaygain,
                \* fader, total_samples, samples_played, and the fader gain
                \* and branch of the last two chunks

\* The two file slots of the player, file_mutex and the three threads that
\* use them, statement by statement (fsp_player.c:611-803, 986-1005).
VARIABLES
    fl          \* file_mutex, current, next, the position and the locals
                \* of the scheduler thread, the decoder thread and the
                \* endpoint's thread inside fsp_mh_cb, the clock, and what
                \* the last step accessed

\* What the last call of fsp_on_process did (fsp_player.c:811-900).
VARIABLES
    cbk         \* whether a buffer was dequeued, the state, the ring's read
                \* space and the bytes asked for at entry, what was put
                \* into the buffer, by how much the read position moved,
                \* and the warning logged

coreVars == << schedVars, playerVars, plsVars, mainVars >>
auxVars == << metaVars, shuf, trk, fl, cbk >>
notMeta == << shuf, trk, fl, cbk >>
notShuf == << metaVars, trk, fl, cbk >>
notTrk == << metaVars, shuf, fl, cbk >>
notFl == << metaVars, shuf, trk, cbk >>
notCbk == << metaVars, shuf, trk, fl >>

MaxWall == 3
MaxRequests == 3
MaxElapsed == 1

\* struct audiofile_info after a memset, and two tracks of MaxElapsed seconds.
NoInfo == [ id |-> 0, duration_secs |-> 0 ]
Tracks == { [ id |-> i, duration_secs |-> MaxElapsed ] : i \in 1..2 }

\* mh_format_json_response(): the fields printed into the body.
mh_format_json_response(cur, nxt, elapsed) ==
    << cur.id, cur.duration_secs, elapsed, nxt.id, nxt.duration_secs >>

\* fsp_mh_cb(): the elapsed seconds and copies of both slots; it returns 0.
fsp_mh_cb(t) == [ ret |-> 0, cur |-> t.cur, next |-> t.next,
                  elapsed |-> t.elapsed ]

\* An mh_update_response() that regenerates on every request.
mh_update_response_always(m, tnow, t) ==
    LET cb == fsp_mh_cb(t)
    IN  [ ret |-> 0,
          mh |-> [ m EXCEPT !.cur = cb.cur, !.next = cb.next,
                            !.last_update = tnow,
                            !.response = mh_format_json_response(
                                             cb.cur, cb.next, cb.elapsed) ] ]

\* mh_update_response(): nothing without a callback, the cached response
\* when the second is that of the last update; else the elapsed time is
\* fetched, both infos are fetched again when next_update has passed, and
\* the response is formatted anew.
mh_update_response(m, tnow, t) ==
    IF ~ m.state_cb THEN [ ret |-> -1, mh |-> m ]
    ELSE IF tnow = m.last_update THEN [ ret |-> 0, mh |-> m ]
    ELSE LET cb == fsp_mh_cb(t)
             full == tnow > m.next_update
             cur == IF full THEN cb.cur ELSE m.cur
             nxt == IF full THEN cb.next ELSE m.next
         IN  [ ret |-> 0,
               mh |-> [ m EXCEPT
                   !.cur = cur,
                   !.next = nxt,
                   !.next_update =
                       IF full THEN tnow + (cur.duration_secs - cb.elapsed) + 1
                       ELSE @,
                   !.response = mh_format_json_response(cur, nxt, cb.elapsed),
                   !.last_update = tnow ] ]

\* mh_init(): the struct after memset, no callback registered, and a player
\* without files; nothing of it is used by the other specifications.
InitMeta ==
    /\ wall = 1
    /\ meta = [ state_cb |-> FALSE, last_update |-> 0, next_update |-> 0,
                response |-> << >>, cur |-> NoInfo, next |-> NoInfo ]
    /\ track = [ cur |-> NoInfo, next |-> NoInfo, elapsed |-> 0 ]
    /\ sent = << >>

\* The slots of temp after memset: NULL.
NullItem == ""
ItemNames == { "a", "b", "c" }
MaxItems == 3
MaxRand == 4

\* No call of pls_shuffle under way.
NoShuffle ==
    [ pc |-> "idle", orig |-> << >>, items |-> << >>, temp |-> << >>,
      items_idx |-> 0, remaining |-> 0, ret |-> 0 ]

InitShuf == shuf = NoShuffle

\* No track context under observation.
NoTrack == [ pc |-> "idle" ]

InitTrk == trk = NoTrack

\* No thread of the player under observation.
NoSlots == [ file_mutex |-> "none" ]

InitFl == fl = NoSlots

\* No call of fsp_on_process so far; calls counts the recorded calls.
NoCallback ==
    [ calls |-> 0, buffer |-> FALSE, state |-> "STOPPED", space |-> 0,
      bytes |-> 0, emit |-> "none", read |-> 0, warn |-> "none" ]

InitCbk == cbk = NoCallback

InitAux == InitMeta /\ InitShuf /\ InitTrk /\ InitFl /\ InitCbk

\* An iteration of pls_shuffle that stores into the drawn slot without
\* looking whether it is taken.
pls_shuffle_iter_overwrite(sh, rnd) ==
    LET temp_idx == rnd % Len(sh.items)
    IN  [ sh EXCEPT !.temp[temp_idx + 1] = sh.items[sh.items_idx + 1],
                    !.items_idx = @ + 1,
                    !.remaining = @ - 1 ]

\* One iteration of the while loop of pls_shuffle with the random number
\* rnd: a taken slot is left alone and the draw repeated, a free slot gets
\* the next item.
pls_shuffle_iter(sh, rnd) ==
    LET temp_idx == rnd % Len(sh.items)
    IN  IF sh.temp[temp_idx + 1] # NullItem THEN sh
        ELSE [ sh EXCEPT !.temp[temp_idx + 1] = sh.items[sh.items_idx + 1],
                         !.items_idx = @ + 1,
                         !.remaining = @ - 1 ]

\* pls_shuffle() is entered: temp is allocated and zeroed, or the call
\* returns -1 with the playlist untouched.
pls_shuffle_begin(ok) ==
    /\ shuf.pc = "call"
    /\ shuf' = IF ok
               THEN [ shuf EXCEPT !.pc = "loop",
                                  !.temp = [ i \in 1..Len(shuf.items) |-> NullItem ],
                                  !.items_idx = 0,
                                  !.remaining = Len(shuf.items) ]
               ELSE [ shuf EXCEPT !.pc = "done", !.ret = -1 ]
    /\ UNCHANGED << coreVars, notShuf >>

\* The loop draws a number; when nothing remains, temp replaces items.
pls_shuffle_loop(rnd) ==
    /\ shuf.pc = "loop"
    /\ shuf' = IF shuf.remaining > 0 THEN pls_shuffle_iter(shuf, rnd)
               ELSE [ shuf EXCEPT !.pc = "done", !.items = shuf.temp, !.ret = 0 ]
    /\ UNCHANGED << coreVars, notShuf >>

\* mh_register_state_callback(), called by fsp_init.
mh_register_state_callback ==
    /\ ~ meta.state_cb
    /\ meta' = [ meta EXCEPT !.state_cb = TRUE, !.last_update = 0 ]
    /\ UNCHANGED << wall, track, sent >>
    /\ UNCHANGED << coreVars, notMeta >>

\* The wall clock reaches the next second.
WallTick ==
    /\ wall < MaxWall
    /\ wall' = wall + 1
    /\ UNCHANGED << meta, track, sent >>
    /\ UNCHANGED << coreVars, notMeta >>

\* The player goes on: the scheduler thread loads track n into an empty
\* slot, another second of the current track is played, or the decoder
\* promotes next.
PlayerPlays(n) ==
    /\ track' =
          IF track.cur = NoInfo THEN [ track EXCEPT !.cur = n ]
          ELSE IF track.next = NoInfo THEN [ track EXCEPT !.next = n ]
          ELSE IF track.elapsed < track.cur.duration_secs
          THEN [ track EXCEPT !.elapsed = @ + 1 ]
          ELSE [ cur |-> track.next, next |-> NoInfo, elapsed |-> 0 ]
    /\ track'.cur # track'.next
    /\ UNCHANGED << wall, meta, sent >>
    /\ UNCHANGED << coreVars, notMeta >>

\* mh_handle_client(): the response is brought up to date and sent, or the
\* connection is closed without a response when the update fails.
mh_handle_client ==
    /\ Len(sent) < MaxRequests
    /\ \E r \in { mh_update_response(meta, wall, track) } :
          /\ meta' = r.mh
          /\ sent' = IF r.ret < 0 THEN sent
                     ELSE Append(sent,
                            [ at |-> wall, body |-> r.mh.response,
                              fresh |-> mh_format_json_response(
                                  track.cur, track.next, track.elapsed) ])
    /\ UNCHANGED << wall, track >>
    /\ UNCHANGED << coreVars, notMeta >>

\* The time of day of sched_init in the model: 06:00:00 on day 0.
LoadTime == 6 * 3600

\* The target instants offered to sched_get_next with a frozen config: just
\* before and at a zone start, two instants ten minutes apart in the 06:00
\* zone, and three instants 60 and 61 seconds apart in the 18:00 zone.
Instants ==
    { 6 * 3600 - 1, 6 * 3600,
      LoadTime + 10 * 60 + 1, LoadTime + 20 * 60 + 1,
      18 * 3600,
      24 * 3600 - 121, 24 * 3600 - 61, 24 * 3600 - 60 }

\* The scenario of the burst property: calls at t0+9m, t0+10m+1s (five
\* times), t0+19m, t0+20m+1s (twice), t0 being the load time.
BurstScript ==
    << LoadTime + 9 * 60,
       LoadTime + 10 * 60 + 1, LoadTime + 10 * 60 + 1, LoadTime + 10 * 60 + 1,
       LoadTime + 10 * 60 + 1, LoadTime + 10 * 60 + 1,
       LoadTime + 19 * 60,
       LoadTime + 20 * 60 + 1, LoadTime + 20 * 60 + 1 >>

\* An environment in which every file is in order.
HealthyEnv(perm) ==
    [ nostat |-> { }, cfg_nostat |-> FALSE,
      fstat |-> [ f \in Files |-> "ok" ], perm |-> perm ]

\* sched_init() at time t0 on a config file with one of the given contents:
\* the program runs only if the first cfg_process succeeds.  The calls are
\* monitored for the burst properties if monitor is set.
InitSchedAt(contents, monitor, t0) ==
    /\ now = t0
    /\ \E c \in contents :
          /\ cfgfile = [ mtime |-> 1, wellformed |-> TRUE,
                       week |-> SameEveryDay(c) ]
          /\ LET r == cfg_process([ last_mtime |-> 0, ws_null |-> TRUE, days |-> << >> ],
                                  cfgfile, now)
             IN  r.ret = 0 /\ cfg = r.cfg
    /\ crashed = FALSE
    /\ call = NoCall
    /\ ncalls = 0
    /\ touches = 0
    /\ mono = monitor
    /\ fires = { }
    /\ draws = << >>
    /\ scen = IF monitor THEN 0 ELSE -1

InitSched(contents, monitor) == InitSchedAt(contents, monitor, LoadTime)

\* The intermediates' last_scheduled values of zone zi of the day of t.
ZoneFires(c, t, zi) ==
    LET zn == c.days[localtime(t).wday + 1][zi + 1]
    IN  { << zi, i - 1, zn.others[i].last_scheduled >> : i \in 1..Len(zn.others) }

\* A sched_get_next call by the player at target instant t, the max-th at
\* the latest.
GetNext(t, env, max) ==
    /\ ~crashed
    /\ ncalls < max
    /\ \E r \in { sched_get_next(cfg,
                      [ cfgfile EXCEPT !.mtime = IF env.cfg_nostat THEN 0 ELSE @ ],
                      t, now, env) } :
       LET reloaded == r.cfg.last_mtime # cfg.last_mtime
           keep == mono /\ call.sched_time <= t /\ ~reloaded
       IN  /\ cfg' = r.cfg
           /\ call' = r.call
           /\ crashed' = r.call.crash
           /\ mono' = keep
           /\ fires' = IF ~keep THEN { }
                       ELSE fires \cup (IF r.call.zone < 0 THEN { }
                                        ELSE ZoneFires(r.cfg, t, r.call.zone))
           /\ draws' = IF ~keep THEN << >>
                       ELSE IF r.call.src = "ipls"
                       THEN Append(draws, << r.call.zone, r.call.ipls, t >>)
                       ELSE draws
           /\ scen' = IF keep /\ scen >= 0 /\ scen < Len(BurstScript)
                         /\ r.call.ret = 0 /\ t = BurstScript[scen + 1]
                      THEN scen + 1 ELSE -1
    /\ ncalls' = ncalls + 1
    /\ UNCHANGED << cfgfile, now, touches >>
    /\ UNCHANGED << playerVars, plsVars, mainVars, auxVars >>

\* The config file is rewritten on disk.
TouchConfig(c, wf) ==
    /\ touches < MaxTouches
    /\ cfgfile' = [ mtime |-> cfgfile.mtime + 1, wellformed |-> wf,
                   week |-> SameEveryDay(c) ]
    /\ touches' = touches + 1
    /\ UNCHANGED << cfg, now, crashed, call, ncalls, mono, fires, draws, scen >>
    /\ UNCHANGED << playerVars, plsVars, mainVars, auxVars >>

\* Time passes.
Tick(t) ==
    /\ t > now
    /\ now' = t
    /\ UNCHANGED << cfgfile, cfg, crashed, call, ncalls, touches, mono,
                    fires, draws, scen >>
    /\ UNCHANGED << playerVars, plsVars, mainVars, auxVars >>

\* cfg_get_pls(): pls_process on the zeroed struct; the config is rejected
\* and the playlist freed if it fails.
cfg_get_pls_process ==
    /\ plsop.op = "none"
    /\ \E r \in { pls_process(pls, plsfile) } :
          /\ pls' = r.pls
          /\ plsop' = [ NoPlsOp EXCEPT !.op = "load", !.ret = r.ret, !.reload = r.ret,
                                       !.parsed = TRUE, !.ub = r.hit ]
    /\ UNCHANGED << plsfile, nplsops >>
    /\ UNCHANGED << schedVars, playerVars, mainVars, auxVars >>

\* The playlist file is rewritten on disk.
PlsRewrite(header, lines) ==
    /\ plsop.op # "none"
    /\ ~(plsop.op = "load" /\ plsop.ret < 0)
    /\ ~plsop.crash
    /\ nplsops < MaxPlsOps
    /\ plsfile' = [ plsfile EXCEPT !.mtime = @ + 1, !.header = header,
                                   !.lines = lines ]
    /\ nplsops' = nplsops + 1
    /\ UNCHANGED << pls, plsop >>
    /\ UNCHANGED << schedVars, playerVars, mainVars, auxVars >>

\* A sched_get_next_item call on the playlist.
PlsNextItem(ub) ==
    /\ plsop.op # "none"
    /\ ~(plsop.op = "load" /\ plsop.ret < 0)
    /\ ~plsop.crash
    /\ nplsops < MaxPlsOps
    /\ \E r \in { sched_next_item(pls, plsfile, ub) } :
          /\ pls' = r.pls
          /\ plsop' = r.op
    /\ nplsops' = nplsops + 1
    /\ UNCHANGED plsfile
    /\ UNCHANGED << schedVars, playerVars, mainVars, auxVars >>

(***************************************************************************)
(* The player: fsp_player.h, fsp_player.c.                                 *)
(***************************************************************************)
FSP_PERIOD_SIZE == 2048
FSP_OUTPUT_SAMPLE_RATE == 48000
FSP_OUTPUT_CHANNELS == 2
FSP_RING_BUFFER_SECONDS == 4
SizeofFloat == 4

\* Bytes of one audio frame, and of the decoder's one-period buffer.
stride == SizeofFloat * FSP_OUTPUT_CHANNELS
buffer_size == FSP_PERIOD_SIZE * FSP_OUTPUT_CHANNELS * SizeofFloat

\* jack_ringbuffer_create rounds the requested size up to a power of two;
\* one byte of it is never written, so that full and empty differ.
RECURSIVE PowerOfTwoFrom(_, _)
PowerOfTwoFrom(p, sz) == IF p >= sz THEN p ELSE PowerOfTwoFrom(2 * p, sz)
ring_size ==
    PowerOfTwoFrom(1, FSP_RING_BUFFER_SECONDS * FSP_OUTPUT_SAMPLE_RATE
                       * FSP_OUTPUT_CHANNELS * SizeofFloat)
jack_ringbuffer_read_space(r) == r
jack_ringbuffer_write_space(r) == ring_size - 1 - r
Min(a, b) == IF a < b THEN a ELSE b
\* Both return the bytes moved: no more than there is space or data for.
jack_ringbuffer_write(r, cnt) == Min(cnt, jack_ringbuffer_write_space(r))
jack_ringbuffer_read(r, cnt) == Min(cnt, jack_ringbuffer_read_space(r))

\* The decoder's test before it decodes a period, and a variant that only
\* asks for some free space.
fsp_decoder_no_space_any(r) == jack_ringbuffer_write_space(r) < 1
fsp_decoder_no_space(r) == jack_ringbuffer_write_space(r) < buffer_size

\* The state fader.  Gains are counted in units of state_fade_slope, which is
\* 1 / state_fade_samples_tot: gain 1.0 is state_fade_samples_tot.
state_fade_samples_tot == FSP_OUTPUT_SAMPLE_RATE * 2
fsp_state_fader_setup ==
    [ active |-> FALSE, samples_out |-> 0, gain |-> state_fade_samples_tot ]
fsp_fader_state_fade_start(fade_in) ==
    [ active |-> TRUE, samples_out |-> 0,
      gain |-> IF fade_in THEN 0 ELSE state_fade_samples_tot ]
fsp_fader_state_fade_step(f, frames, fade_in) ==
    IF ~f.active THEN f
    ELSE IF f.samples_out >= state_fade_samples_tot
    THEN [ f EXCEPT !.active = FALSE,
                    !.gain = IF fade_in THEN state_fade_samples_tot ELSE 0 ]
    ELSE [ f EXCEPT !.gain = IF fade_in THEN f.samples_out
                             ELSE state_fade_samples_tot - f.samples_out,
                    !.samples_out = f.samples_out + frames ]

\* An audio file context: whether a file is loaded (decoder.fmt_ctx) and the
\* frames it still holds; LongFile stands for a file that does not end
\* within the run.
LongFile == 0 - 1
NoFile == [ loaded |-> FALSE, left |-> 0 ]
\* fsp_extract_frames: <<frames decoded, the context afterwards>>.  Nothing
\* is decoded without a file, at the end of the file or while stopping.
fsp_extract_frames(st, ctx, frames_needed) ==
    IF ~ctx.loaded \/ st = "STOPPING" THEN << 0, ctx >>
    ELSE IF ctx.left = LongFile THEN << frames_needed, ctx >>
    ELSE << Min(frames_needed, ctx.left),
            [ ctx EXCEPT !.left = ctx.left - Min(frames_needed, ctx.left) ] >>

\* The threads that call fsp_stop, and the two workers among them.
Callers == { "main", "sig", "cb", "sched", "dec" }
Workers == { "sched", "dec" }
NoFade == [ dir |-> "none", from |-> "STOPPED", mono |-> TRUE, last |-> 0,
            done |-> FALSE, end |-> "STOPPED" ]
NoStop == [ by |-> "none", running |-> { } ]

\* fsp_init(): the state after construction.
InitPlayer ==
    /\ state = "STOPPED"
    /\ fader = fsp_state_fader_setup
    /\ ring = 0
    /\ current = NoFile
    /\ next = NoFile
    /\ loop_quit = FALSE
    /\ stream = TRUE
    /\ freed = FALSE
    /\ main_pc = "init"
    /\ sig_pc = "idle"
    /\ sched_pc = "none"
    /\ dec_pc = "none"
    /\ stopper = [ c \in Callers |-> "no" ]
    /\ nloads = 0
    /\ set_from = "STOPPED"
    /\ fade = NoFade
    /\ out_gain = 0
    /\ quiet = FALSE
    /\ stop_ret = NoStop
    /\ overrun = FALSE
    /\ underread = FALSE

\* The process lives until main() returns.
Alive == main_pc # "exit"

\* The workers that were created and have not returned.
RunningWorkers ==
    { w \in Workers : IF w = "sched" THEN sched_pc \notin { "none", "done" }
                                     ELSE dec_pc \notin { "none", "done" } }

\* pthread_cond_signal wakes a thread that is inside pthread_cond_wait on the
\* condition; a signal that finds nobody waiting is lost.
signal_scheduler_cond(pc) == IF pc = "wait" THEN "woken" ELSE pc
signal_decoder_cond(pc) == IF pc = "wait_start" THEN "loop" ELSE pc
signal_space_available(pc) == IF pc = "wait_space" THEN "loop" ELSE pc

\* fsp_stop returns to caller c, which goes on from where it called it.
fsp_stop_return(c) ==
    /\ stop_ret' = [ by |-> c, running |-> RunningWorkers \ { c } ]
    /\ main_pc' = IF c # "main" THEN main_pc
                  ELSE IF main_pc = "start_stop" THEN "cleanup_stop" ELSE "free"
    /\ sig_pc' = IF c = "sig" THEN "done" ELSE sig_pc
    /\ sched_pc' = IF c = "sched" THEN "done" ELSE sched_pc
    /\ dec_pc' = IF c = "dec" THEN "done" ELSE dec_pc

\* An fsp_stop without the early return.
fsp_stop_begin_always(c) ==
    /\ state' = "STOPPING"
    /\ loop_quit' = TRUE
    /\ sched_pc' = signal_scheduler_cond(sched_pc)
    /\ dec_pc' = signal_space_available(signal_decoder_cond(dec_pc))
    /\ stopper' = [ stopper EXCEPT ![c] = "join_sched" ]
    /\ sig_pc' = IF c = "sig" THEN "int" ELSE sig_pc
    /\ UNCHANGED << main_pc, stop_ret >>

\* fsp_stop up to its first pthread_join: return at once when Stopped or
\* Stopping, else set Stopping, quit the loop and signal the conditions.
fsp_stop_begin(c) ==
    IF state \in { "STOPPED", "STOPPING" }
    THEN /\ fsp_stop_return(c)
         /\ UNCHANGED << state, loop_quit, stopper >>
    ELSE /\ state' = "STOPPING"
         /\ loop_quit' = TRUE
         /\ sched_pc' = signal_scheduler_cond(sched_pc)
         /\ dec_pc' = signal_space_available(signal_decoder_cond(dec_pc))
         /\ stopper' = [ stopper EXCEPT ![c] = "join_sched" ]
         /\ sig_pc' = IF c = "sig" THEN "int" ELSE sig_pc
         /\ UNCHANGED << main_pc, stop_ret >>

\* fsp_signal_handler(), run by the dispatcher thread: SIGINT and SIGTERM
\* stop the player, SIGUSR1 and SIGUSR2 set the state, any other signal is
\* ignored.
fsp_signal_handler_cb(signo) ==
    /\ Alive
    /\ sig_pc = "idle"
    /\ IF signo \in StopSignals
       THEN /\ fsp_stop_begin("sig")
            /\ UNCHANGED << set_from, quiet >>
       ELSE IF signo \in { "SIGUSR1", "SIGUSR2" }
       THEN /\ state' = IF signo = "SIGUSR1" THEN "PAUSING" ELSE "RESUMING"
            /\ set_from' = state
            /\ quiet' = IF signo = "SIGUSR2" THEN FALSE ELSE quiet
            /\ UNCHANGED << loop_quit, stopper, stop_ret,
                            main_pc, sig_pc, sched_pc, dec_pc >>
       ELSE UNCHANGED << state, set_from, quiet, loop_quit, stopper, stop_ret,
                         main_pc, sig_pc, sched_pc, dec_pc >>
    /\ UNCHANGED << fader, ring, current, next, stream, freed, nloads,
                    fade, out_gain, overrun, underread >>
    /\ UNCHANGED << schedVars, plsVars >>

\* The handler alone, with the dispatcher and the endpoint left aside.
fsp_signal_handler(signo) ==
    /\ fsp_signal_handler_cb(signo)
    /\ UNCHANGED << mainVars, auxVars >>

\* One iteration of sig_thread(): epoll_wait returns, the signal is read and
\* handed to the registered units in the order PLAYER, META.  For SIGINT
\* and SIGTERM the player's callback is inside fsp_stop when this step ends
\* and the endpoint's callback follows in sig_thread_meta; for any other
\* signal both callbacks return at once, and the thread leaves its loop if
\* sig_dispatcher_cleanup has cleared running.
sig_thread(signo) ==
    /\ sd.thread = "run"
    /\ sd.signo = "none"
    /\ IF "PLAYER" \in sd.handlers
       THEN fsp_signal_handler_cb(signo)
       ELSE /\ Alive
            /\ sig_pc = "idle"
            /\ sig_pc' = IF signo \in StopSignals THEN "done" ELSE sig_pc
            /\ UNCHANGED << state, fader, ring, current, next, loop_quit,
                            stream, freed, main_pc, sched_pc, dec_pc, stopper,
                            nloads, set_from, fade, out_gain, quiet, stop_ret,
                            overrun, underread >>
            /\ UNCHANGED << schedVars, plsVars >>
    /\ IF signo \in StopSignals
       THEN /\ sd' = [ sd EXCEPT !.signo = signo ]
            /\ mh' = mh
       ELSE /\ mh' = IF "META" \in sd.handlers
                     THEN mh_signal_handler(signo, mh) ELSE mh
            /\ sd' = [ sd EXCEPT
                         !.thread = IF sd.running THEN "run" ELSE "done" ]
    /\ UNCHANGED << mn, auxVars >>

\* sig_thread() after the player's callback has returned from fsp_stop: the
\* endpoint's callback runs and the thread ends.  main() waits for this
\* thread in sig_dispatcher_cleanup, so the step does not depend on main's
\* position.  An endpoint whose thread was never created is joined through
\* thread id 0, which may crash the process.
sig_thread_meta ==
    /\ mn.pc # "crash"
    /\ sd.thread = "run"
    /\ sd.signo \in StopSignals
    /\ sig_pc = "done"
    /\ mh' = IF "META" \in sd.handlers
             THEN mh_signal_handler(sd.signo, mh) ELSE mh
    /\ sd' = [ sd EXCEPT !.thread = "done" ]
    /\ mn' \in IF "META" \in sd.handlers /\ mh.thread = "none"
               THEN { mn, [ mn EXCEPT !.pc = "crash" ] }
               ELSE { mn }
    /\ UNCHANGED << schedVars, playerVars, plsVars, auxVars >>

\* fsp_stop called by main (from fsp_start and from fsp_cleanup) or by a
\* worker thread on its way out.
fsp_stop(c) ==
    /\ Alive
    /\ stopper[c] = "no"
    /\ IF c = "main" THEN main_pc \in { "start_stop", "cleanup_stop" }
       ELSE IF c = "sched" THEN sched_pc = "stop"
       ELSE c = "dec" /\ dec_pc = "stop"
    /\ fsp_stop_begin(c)
    /\ UNCHANGED << fader, ring, current, next, stream, freed, nloads,
                    set_from, fade, out_gain, quiet, overrun, underread >>
    /\ UNCHANGED << schedVars, plsVars, mainVars, auxVars >>

\* pthread_join(scheduler_thread) inside fsp_stop returns: the thread has
\* returned, or it is the caller itself (EDEADLK).
fsp_stop_join_scheduler(c) ==
    /\ Alive
    /\ stopper[c] = "join_sched"
    /\ c = "sched" \/ sched_pc \in { "none", "done" }
    /\ stopper' = [ stopper EXCEPT ![c] = "join_dec" ]
    /\ UNCHANGED << state, fader, ring, current, next, loop_quit, stream, freed,
                    main_pc, sig_pc, sched_pc, dec_pc, nloads,
                    set_from, fade, out_gain, quiet, stop_ret, overrun,
                    underread >>
    /\ UNCHANGED << schedVars, plsVars, mainVars, auxVars >>

\* pthread_join(decoder_thread) returns, the state is set to Stopped and
\* fsp_stop returns.
fsp_stop_join_decoder(c) ==
    /\ Alive
    /\ stopper[c] = "join_dec"
    /\ c = "dec" \/ dec_pc \in { "none", "done" }
    /\ state' = "STOPPED"
    /\ stopper' = [ stopper EXCEPT ![c] = "no" ]
    /\ fsp_stop_return(c)
    /\ UNCHANGED << fader, ring, current, next, loop_quit, stream, freed, nloads,
                    set_from, fade, out_gain, quiet, overrun, underread >>
    /\ UNCHANGED << schedVars, plsVars, mainVars, auxVars >>

\* fsp_start up to pw_main_loop_run: refused unless Stopped; else the state
\* becomes Resuming, both threads are created and the loop runs.
fsp_start ==
    /\ main_pc = "init"
    /\ IF state # "STOPPED"
       THEN /\ main_pc' = "cleanup_stop"
            /\ UNCHANGED << state, set_from, sched_pc, dec_pc, loop_quit >>
       ELSE /\ state' = "RESUMING"
            /\ set_from' = state
            /\ sched_pc' = "load1"
            /\ dec_pc' = "init"
            /\ loop_quit' = FALSE
            /\ main_pc' = "loop"
    /\ UNCHANGED << fader, ring, current, next, stream, freed, sig_pc, stopper,
                    nloads, fade, out_gain, quiet, stop_ret, overrun,
                    underread >>
    /\ UNCHANGED << schedVars, plsVars, mainVars, auxVars >>

\* pw_main_loop_run returns after pw_main_loop_quit; fsp_start goes on to
\* call fsp_stop.
pw_main_loop_run ==
    /\ main_pc = "loop"
    /\ loop_quit
    /\ main_pc' = "start_stop"
    /\ UNCHANGED << state, fader, ring, current, next, loop_quit, stream, freed,
                    sig_pc, sched_pc, dec_pc, stopper, nloads,
                    set_from, fade, out_gain, quiet, stop_ret, overrun,
                    underread >>
    /\ UNCHANGED << schedVars, plsVars, mainVars, auxVars >>

\* fsp_cleanup after its fsp_stop: the file contexts, the ring buffer, the
\* stream, the loop, the mutexes and the conditions are released, and main
\* returns.
fsp_cleanup ==
    /\ main_pc = "free"
    /\ freed' = TRUE
    /\ stream' = FALSE
    /\ current' = NoFile
    /\ next' = NoFile
    /\ main_pc' = "exit"
    /\ UNCHANGED << state, fader, ring, loop_quit, sig_pc, sched_pc, dec_pc,
                    stopper, nloads, set_from, fade, out_gain, quiet, stop_ret,
                    overrun, underread >>
    /\ UNCHANGED << schedVars, plsVars, mainVars, auxVars >>

\* What fsp_load_next_file leaves in player->next: a file of len frames.
fsp_load_next_file(len) == [ loaded |-> TRUE, left |-> len ]

\* The scheduler thread loads the first file and moves it to current; it
\* returns without stopping the player if the load fails.
fsp_scheduler_thread_first(ok, len, max) ==
    /\ Alive
    /\ sched_pc = "load1"
    /\ nloads < max
    /\ nloads' = nloads + 1
    /\ IF ok
       THEN /\ current' = fsp_load_next_file(len)
            /\ next' = NoFile
            /\ sched_pc' = "load2"
       ELSE /\ sched_pc' = "done"
            /\ UNCHANGED << current, next >>
    /\ UNCHANGED << state, fader, ring, loop_quit, stream, freed,
                    main_pc, sig_pc, dec_pc, stopper,
                    set_from, fade, out_gain, quiet, stop_ret, overrun,
                    underread >>
    /\ UNCHANGED << schedVars, plsVars, mainVars, auxVars >>

\* It loads the second file and signals decoder_cond.
fsp_scheduler_thread_second(ok, len, max) ==
    /\ Alive
    /\ sched_pc = "load2"
    /\ nloads < max
    /\ nloads' = nloads + 1
    /\ IF ok
       THEN /\ next' = fsp_load_next_file(len)
            /\ dec_pc' = signal_decoder_cond(dec_pc)
            /\ sched_pc' = "loop"
       ELSE /\ sched_pc' = "done"
            /\ UNCHANGED << next, dec_pc >>
    /\ UNCHANGED << state, fader, ring, current, loop_quit, stream, freed,
                    main_pc, sig_pc, stopper,
                    set_from, fade, out_gain, quiet, stop_ret, overrun,
                    underread >>
    /\ UNCHANGED << schedVars, plsVars, mainVars, auxVars >>

\* The test of its while loop: out of the loop when Stopping, else on to
\* pthread_cond_wait.
fsp_scheduler_thread_test ==
    /\ Alive
    /\ sched_pc = "loop"
    /\ sched_pc' = IF state = "STOPPING" THEN "stop" ELSE "prewait"
    /\ UNCHANGED << state, fader, ring, current, next, loop_quit, stream, freed,
                    main_pc, sig_pc, dec_pc, stopper, nloads,
                    set_from, fade, out_gain, quiet, stop_ret, overrun,
                    underread >>
    /\ UNCHANGED << schedVars, plsVars, mainVars, auxVars >>

\* It enters pthread_cond_wait(scheduler_cond).
fsp_scheduler_thread_wait ==
    /\ Alive
    /\ sched_pc = "prewait"
    /\ sched_pc' = "wait"
    /\ UNCHANGED << state, fader, ring, current, next, loop_quit, stream, freed,
                    main_pc, sig_pc, dec_pc, stopper, nloads,
                    set_from, fade, out_gain, quiet, stop_ret, overrun,
                    underread >>
    /\ UNCHANGED << schedVars, plsVars, mainVars, auxVars >>

\* pthread_cond_wait(scheduler_cond) may return without a signal (a spurious
\* wakeup; the wait is also made on scheduler_mutex, which the thread never
\* locks), and the thread tests nothing but the state afterwards.
fsp_scheduler_thread_wait_returns ==
    /\ Alive
    /\ sched_pc = "wait"
    /\ sched_pc' = "woken"
    /\ UNCHANGED << state, fader, ring, current, next, loop_quit, stream, freed,
                    main_pc, sig_pc, dec_pc, stopper, nloads,
                    set_from, fade, out_gain, quiet, stop_ret, overrun,
                    underread >>
    /\ UNCHANGED << schedVars, plsVars, mainVars, auxVars >>

\* Woken: out of the loop when Stopping or when the load fails, else the
\* next file is loaded and decoder_cond signalled.
fsp_scheduler_thread_woken(ok, len, max) ==
    /\ Alive
    /\ sched_pc = "woken"
    /\ IF state = "STOPPING"
       THEN /\ sched_pc' = "stop"
            /\ UNCHANGED << next, dec_pc, nloads >>
       ELSE /\ nloads < max
            /\ nloads' = nloads + 1
            /\ IF ok
               THEN /\ next' = fsp_load_next_file(len)
                    /\ dec_pc' = signal_decoder_cond(dec_pc)
                    /\ sched_pc' = "loop"
               ELSE /\ sched_pc' = "stop"
                    /\ UNCHANGED << next, dec_pc >>
    /\ UNCHANGED << state, fader, ring, current, loop_quit, stream, freed,
                    main_pc, sig_pc, stopper,
                    set_from, fade, out_gain, quiet, stop_ret, overrun,
                    underread >>
    /\ UNCHANGED << schedVars, plsVars, mainVars, auxVars >>

\* The decoder thread enters pthread_cond_wait(decoder_cond), or, having
\* found the ring buffer full, pthread_cond_wait(space_available).
fsp_decoder_thread_wait ==
    /\ Alive
    /\ dec_pc \in { "init", "prewait_space" }
    /\ dec_pc' = IF dec_pc = "init" THEN "wait_start" ELSE "wait_space"
    /\ UNCHANGED << state, fader, ring, current, next, loop_quit, stream, freed,
                    main_pc, sig_pc, sched_pc, stopper, nloads,
                    set_from, fade, out_gain, quiet, stop_ret, overrun,
                    underread >>
    /\ UNCHANGED << schedVars, plsVars, mainVars, auxVars >>

\* Both waits are made on decoder_mutex, which the thread never locks: the
\* wait may return without a signal.
fsp_decoder_thread_wait_returns ==
    /\ Alive
    /\ dec_pc \in { "wait_start", "wait_space" }
    /\ dec_pc' = "loop"
    /\ UNCHANGED << state, fader, ring, current, next, loop_quit, stream, freed,
                    main_pc, sig_pc, sched_pc, stopper, nloads,
                    set_from, fade, out_gain, quiet, stop_ret, overrun,
                    underread >>
    /\ UNCHANGED << schedVars, plsVars, mainVars, auxVars >>

\* One round of the decoder's loop: out when Stopping; to the wait if the
\* ring buffer has no room; else up to a period is decoded, switching to the
\* next file at the end of the current one, and written to the ring buffer.
fsp_decoder_thread ==
    /\ Alive
    /\ dec_pc = "loop"
    /\ IF state = "STOPPING"
       THEN /\ dec_pc' = "stop"
            /\ UNCHANGED << ring, current, next, sched_pc, overrun >>
       ELSE IF fsp_decoder_no_space(ring)
       THEN /\ dec_pc' = "prewait_space"
            /\ UNCHANGED << ring, current, next, sched_pc, overrun >>
       ELSE \E e1 \in { fsp_extract_frames(state, current, FSP_PERIOD_SIZE) } :
            \E switch \in { e1[1] < FSP_PERIOD_SIZE /\ next.loaded } :
            \E e2 \in { fsp_extract_frames(state, next, FSP_PERIOD_SIZE - e1[1]) } :
            \E bytes_to_write \in
                  { (IF switch THEN e1[1] + e2[1] ELSE e1[1]) * stride } :
            \E written \in { jack_ringbuffer_write(ring, bytes_to_write) } :
               /\ current' = IF switch THEN e2[2] ELSE e1[2]
               /\ next' = IF switch THEN NoFile ELSE next
               /\ sched_pc' = IF switch THEN signal_scheduler_cond(sched_pc)
                              ELSE sched_pc
               /\ ring' = ring + written
               /\ overrun' = (overrun \/ written < bytes_to_write)
               /\ dec_pc' = "loop"
    /\ UNCHANGED << state, fader, loop_quit, stream, freed,
                    main_pc, sig_pc, stopper, nloads,
                    set_from, fade, out_gain, quiet, stop_ret, underread >>
    /\ UNCHANGED << schedVars, plsVars, mainVars, auxVars >>

\* The state after a callback that stepped the fade to f.
fsp_on_process_state(st, f) ==
    IF f.active THEN st
    ELSE IF st = "PAUSING" THEN "PAUSED"
    ELSE IF st = "RESUMING" THEN "PLAYING"
    ELSE st

\* An underrun warning that does not look at the state.
fsp_underrun_warning_always(st) == "underrun"

\* The warning fsp_on_process logs when the ring holds less than it was
\* asked for: one only while Playing.
fsp_underrun_warning(st) == IF st = "PLAYING" THEN "underrun" ELSE "none"

\* What a call that dequeued a buffer of bytes_to_write bytes did.
Callback(emit, bytes_to_write, read, warn) ==
    [ calls |-> cbk.calls + 1, buffer |-> TRUE, state |-> state,
      space |-> jack_ringbuffer_read_space(ring), bytes |-> bytes_to_write,
      emit |-> emit, read |-> read, warn |-> warn ]

\* The sink's process callback with a buffer of n_frames frames.  The sink
\* calls from the time pw_main_loop_run has connected the stream until the
\* stream is destroyed.  The call is recorded in cbk if log is set.
fsp_on_process_cb(n_frames, log) ==
    /\ Alive
    /\ stream
    /\ main_pc # "init"
    /\ IF state = "STOPPING"
       THEN /\ stop_ret' = [ by |-> "cb", running |-> RunningWorkers ]
            /\ cbk' = IF log
                      THEN [ NoCallback EXCEPT !.calls = cbk.calls + 1, !.state = state,
                               !.space = jack_ringbuffer_read_space(ring) ]
                      ELSE cbk
            /\ UNCHANGED << state, fader, ring, dec_pc, fade, out_gain, quiet,
                            underread >>
       ELSE IF state \in { "PAUSED", "STOPPED" }
       THEN /\ out_gain' = 0
            /\ cbk' = IF log
                      THEN Callback("zeros", n_frames * stride, 0, "none")
                      ELSE cbk
            /\ UNCHANGED << state, fader, ring, dec_pc, fade, quiet, stop_ret,
                            underread >>
       ELSE \E starts \in { ~fader.active /\ state \in { "PAUSING", "RESUMING" } } :
            \E f1 \in { IF starts THEN fsp_fader_state_fade_start(state = "RESUMING")
                        ELSE fader } :
            \E fd1 \in { IF starts
                         THEN [ dir |-> IF state = "RESUMING" THEN "in" ELSE "out",
                                from |-> set_from, mono |-> TRUE, last |-> f1.gain,
                                done |-> FALSE, end |-> state ]
                         ELSE fade } :
            \E bytes_to_write \in { n_frames * stride } :
               IF jack_ringbuffer_read_space(ring) < bytes_to_write
               THEN /\ fader' = f1
                    /\ fade' = fd1
                    /\ out_gain' = 0
                    /\ cbk' = IF log
                              THEN Callback("zeros", bytes_to_write, 0,
                                            fsp_underrun_warning(state))
                              ELSE cbk
                    /\ UNCHANGED << state, ring, dec_pc, quiet, stop_ret, underread >>
               ELSE \E f2 \in { fsp_fader_state_fade_step(f1, n_frames,
                                                          state = "RESUMING") } :
                    /\ ring' = ring - jack_ringbuffer_read(ring, bytes_to_write)
                    /\ cbk' = IF log
                              THEN Callback("ring", bytes_to_write,
                                            ring - ring', "none")
                              ELSE cbk
                    /\ underread' = (underread \/
                          jack_ringbuffer_read(ring, bytes_to_write) < bytes_to_write)
                    /\ dec_pc' = signal_space_available(dec_pc)
                    /\ fader' = f2
                    /\ out_gain' = IF f1.active THEN f2.gain
                                   ELSE state_fade_samples_tot
                    /\ state' = IF f1.active THEN fsp_on_process_state(state, f2)
                                ELSE state
                    /\ fade' = IF ~f1.active THEN fd1
                               ELSE [ fd1 EXCEPT
                                        !.mono = fd1.mono /\
                                                 (IF fd1.dir = "in"
                                                  THEN f2.gain >= fd1.last
                                                  ELSE f2.gain <= fd1.last),
                                        !.last = f2.gain,
                                        !.done = ~f2.active,
                                        !.end = fsp_on_process_state(state, f2) ]
                    /\ quiet' = (quiet \/ (f1.active /\ ~f2.active
                                            /\ state = "PAUSING"))
                    /\ UNCHANGED stop_ret
    /\ UNCHANGED << current, next, loop_quit, stream, freed,
                    main_pc, sig_pc, sched_pc, stopper, nloads,
                    set_from, overrun >>
    /\ UNCHANGED << schedVars, plsVars, mainVars, notCbk >>

\* The callback in the specifications that do not look at what it emits.
fsp_on_process(n_frames) == fsp_on_process_cb(n_frames, FALSE)

\* The callback when the stream has no buffer to hand out: a warning, and
\* nothing is emitted.
fsp_on_process_nobuf ==
    /\ Alive
    /\ stream
    /\ main_pc # "init"
    /\ state # "STOPPING"
    /\ cbk' = [ NoCallback EXCEPT !.calls = cbk.calls + 1, !.state = state,
                  !.space = jack_ringbuffer_read_space(ring),
                  !.warn = "overrun" ]
    /\ UNCHANGED << coreVars, notCbk >>

vars == << schedVars, playerVars, plsVars, mainVars, auxVars >>

Init == InitSched(ConfigContents, TRUE) /\ InitPlayer /\ InitPls /\ InitMainStarted
    /\ InitAux

\* The engine with a frozen configuration and files in order.
Next ==
    \E t \in Instants, perm \in Perms : GetNext(t, HealthyEnv(perm), MaxCalls)

Spec == Init /\ [][Next]_vars

\* The engine called at the instants of the burst scenario, in any order.
BurstInstants == { BurstScript[i] : i \in 1..Len(BurstScript) }

NextBurst ==
    \E t \in BurstInstants, perm \in Perms :
        GetNext(t, HealthyEnv(perm), MaxBurstCalls)

SpecBurst == Init /\ [][NextBurst]_vars

\* The engine with files that fail and a config file that is rewritten.
\* The environments of a call: all in order; the config file cannot be
\* stat()ed; playlist files cannot be stat()ed; the audio files of a set are
\* unreadable or fail the probe.
FailureCases ==
    { << { }, "ok", { "jingles.m3u", "ids.m3u" } >>,
      << { "j", "k" }, "unreadable", { } >>,
      << { "j", "k" }, "unreadable", { "z1main.m3u" } >>,
      << { "a", "b" }, "unreadable", { } >>,
      << { "a", "b" }, "noprobe", { } >>,
      << { "a", "b", "c" }, "unreadable", { } >>,
      << Files, "unreadable", { } >>,
      << Files, "noprobe", { } >> }

Envs ==
    { HealthyEnv(perm) : perm \in Perms } \cup
    { [ HealthyEnv(perm) EXCEPT !.cfg_nostat = TRUE ] :
         perm \in { [ i \in 1..MaxShuffled |-> i ] } } \cup
    { [ nostat |-> fc[3], cfg_nostat |-> FALSE,
        fstat |-> [ f \in Files |-> IF f \in fc[1] THEN fc[2] ELSE "ok" ],
        perm |-> [ i \in 1..MaxShuffled |-> i ] ] : fc \in FailureCases }

\* Two target instants: one in the 06:00 zone with its intermediate ready,
\* one in the 18:00 zone, which has no fallback playlist.
EnvInstants == { LoadTime + 10 * 60 + 1, 24 * 3600 - 60 }

\* What the config file is rewritten to: one zone, or two zones in the wrong
\* order.
TouchContents == { << 6 >>, << 18, 6 >> }

InitEnv == InitSched({ << 0, 6, 18 >> }, FALSE) /\ InitPlayer /\ InitPls /\ InitMainStarted
    /\ InitAux

NextEnv ==
    \/ \E t \in EnvInstants, env \in Envs : GetNext(t, env, MaxEnvCalls)
    \/ \E c \in TouchContents, wf \in BOOLEAN : TouchConfig(c, wf)
    \/ \E t \in EnvInstants : Tick(t)

SpecEnv == InitEnv /\ [][NextEnv]_vars

\* The playlist loader: a .m3u or .pls file with the entry lines below is
\* loaded, drawn from and rewritten.
PlsLines ==
    { << >>, << "k" >>, << "a" >>, << "a", "b" >>, << "c", "k", "b" >>,
      << "b", "c", "a" >> }
PlsFiles ==
    { [ mtime |-> 1, type |-> ty, header |-> h, lines |-> l ] :
         ty \in { TYPE_PLS, TYPE_M3U }, h \in BOOLEAN, l \in PlsLines }

InitPlsOnly ==
    InitSched({ << 0 >> }, FALSE) /\ InitPlayer /\ InitPlsAt(PlsFiles)
       /\ InitMainStarted
       /\ InitAux

NextPls ==
    \/ cfg_get_pls_process
    \/ \E h \in BOOLEAN, l \in PlsLines : PlsRewrite(h, l)
    \/ \E ub \in UBOutcomes : PlsNextItem(ub)

SpecPls == InitPlsOnly /\ [][NextPls]_vars

\* Readiness across midnight: the config is loaded at 23:55:00, so every
\* intermediate was "last scheduled" then; the calls come at 23:59:00 and at
\* 00:05:00 and 00:05:01 of the next day (interval 10 minutes), and at
\* 23:56:00, 23:56:01, 23:57:00 and 23:57:01 (intervals 1 and 2 minutes).
LateLoadTime == 24 * 3600 - 5 * 60
ReadyInstants ==
    { LateLoadTime + s : s \in { 60, 61, 120, 121, 4 * 60, 10 * 60, 10 * 60 + 1 } }

InitReady == InitSchedAt({ << 6 >>, << 18 >> }, FALSE, LateLoadTime) /\ InitPlayer /\ InitPls /\ InitMainStarted
    /\ InitAux

NextReady ==
    \E t \in ReadyInstants, perm \in Perms : GetNext(t, HealthyEnv(perm), MaxReadyCalls)

SpecReady == InitReady /\ [][NextReady]_vars

\* The zone lookup around the zone starts: calls on the day after the load at
\* 00:00:00, 00:00:01, 05:59:59, 06:00:00 and 17:59:59, with every config.
ZoneInstants ==
    { SecsPerDay + s : s \in { 0, 1, 6 * 3600 - 1, 6 * 3600, 18 * 3600 - 1 } }

InitZone == InitSched(ConfigContents, FALSE) /\ InitPlayer /\ InitPls /\ InitMainStarted
    /\ InitAux

NextZone ==
    \E t \in ZoneInstants, perm \in Perms : GetNext(t, HealthyEnv(perm), MaxZoneCalls)

SpecZone == InitZone /\ [][NextZone]_vars

\* The loading of a config file by sched_init.  A file of the model has the
\* same zones on every day but one, and that day's element is as the others,
\* missing, without zones, with a zone that lacks its main playlist, with
\* the zones in reverse order, or with its first zone twice.
Reverse(q) == [ i \in 1..Len(q) |-> q[Len(q) + 1 - i] ]
CfgDefects == { "none", "absent", "empty", "nomain", "reversed", "doubled" }
DefectiveDay(starts, kind) ==
    CASE kind = "absent" -> [ present |-> FALSE, zones |-> << >> ]
      [] kind = "empty" -> [ present |-> TRUE, zones |-> << >> ]
      [] kind = "nomain" ->
           [ DayElement(starts) EXCEPT !.zones[Len(starts)].main = FALSE ]
      [] kind = "reversed" -> DayElement(Reverse(starts))
      [] kind = "doubled" -> DayElement(<< starts[1] >> \o starts)
      [] OTHER -> DayElement(starts)
CfgFiles ==
    { [ mtime |-> 1, wellformed |-> wf,
        week |-> [ SameEveryDay(c) EXCEPT ![d] = DefectiveDay(c, k) ] ] :
         wf \in BOOLEAN, c \in ConfigContents, d \in { 0, 4, 6 }, k \in CfgDefects }

\* Before sched_init: one of the files on disk and nothing loaded.
InitCfgOf(files) ==
    /\ cfgfile \in files
    /\ cfg = [ last_mtime |-> 0, ws_null |-> TRUE, days |-> << >> ]
    /\ now = LoadTime
    /\ crashed = FALSE
    /\ call = NoCall
    /\ ncalls = 0
    /\ touches = 0
    /\ mono = FALSE
    /\ fires = { }
    /\ draws = << >>
    /\ scen = -1
    /\ InitPlayer
    /\ InitPls

InitCfg == InitCfgOf(CfgFiles) /\ InitMainStarted /\ InitAux

\* sched_init(): cfg_process on a struct config that malloc did not zero.
\* A parse that fails before cfg->ws is assigned ends in cfg_cleanup on the
\* uninitialised pointer, which may or may not crash.
sched_init_call ==
    /\ ~call.parsed
    /\ ncalls = 0
    /\ \E r \in { cfg_process(cfg, cfgfile, now) } :
          /\ cfg' = r.cfg
          /\ call' = [ NoCall EXCEPT !.ret = r.ret, !.reload = r.ret,
                                     !.parsed = TRUE ]
          /\ crashed' \in IF cfgfile.mtime = 0 \/ ~cfgfile.wellformed
                          THEN BOOLEAN ELSE { FALSE }
    /\ UNCHANGED << cfgfile, now, ncalls, touches, mono, fires, draws, scen >>
    /\ UNCHANGED << playerVars, plsVars >>

\* sched_init alone, with main() left aside.
sched_init ==
    /\ sched_init_call
    /\ UNCHANGED << mainVars, auxVars >>

NextCfg == sched_init

SpecCfg == InitCfg /\ [][NextCfg]_vars

(***************************************************************************)
(* The player's specifications.                                            *)
(***************************************************************************)
\* The player starts next to a schedule engine that is left alone.
InitBase == InitSched({ << 0 >> }, FALSE) /\ InitPlayer /\ InitPls /\ InitMainStarted

InitPlayerOnly == InitBase /\ InitAux

\* The whole player: every signal, loads that may fail, files of half a
\* period.
Signals == { "SIGUSR1", "SIGUSR2", "SIGINT" }
FileFrames == { FSP_PERIOD_SIZE \div 2 }

NextPlayer ==
    \/ \E signo \in Signals : fsp_signal_handler(signo)
    \/ fsp_start
    \/ pw_main_loop_run
    \/ fsp_cleanup
    \/ \E c \in { "main", "sched", "dec" } : fsp_stop(c)
    \/ \E c \in Callers : fsp_stop_join_scheduler(c)
    \/ \E c \in Callers : fsp_stop_join_decoder(c)
    \/ \E ok \in BOOLEAN, len \in FileFrames :
          fsp_scheduler_thread_first(ok, len, MaxLoads)
    \/ \E ok \in BOOLEAN, len \in FileFrames :
          fsp_scheduler_thread_second(ok, len, MaxLoads)
    \/ fsp_scheduler_thread_test
    \/ fsp_scheduler_thread_wait
    \/ \E ok \in BOOLEAN, len \in FileFrames :
          fsp_scheduler_thread_woken(ok, len, MaxLoads)
    \/ fsp_decoder_thread_wait
    \/ fsp_decoder_thread_wait_returns
    \/ fsp_decoder_thread
    \/ fsp_on_process(FSP_PERIOD_SIZE)

SpecPlayer == InitPlayerOnly /\ [][NextPlayer]_vars

\* The player of SpecPlayer behind the dispatcher: every signal reaches the
\* player and the endpoint through sig_thread.
NextSig ==
    \/ \E signo \in AllSignals : sig_thread(signo)
    \/ sig_thread_meta
    \/ fsp_start
    \/ pw_main_loop_run
    \/ fsp_cleanup
    \/ \E c \in { "main", "sched", "dec" } : fsp_stop(c)
    \/ \E c \in Callers : fsp_stop_join_scheduler(c)
    \/ \E c \in Callers : fsp_stop_join_decoder(c)
    \/ \E ok \in BOOLEAN, len \in FileFrames :
          fsp_scheduler_thread_first(ok, len, MaxLoads)
    \/ \E ok \in BOOLEAN, len \in FileFrames :
          fsp_scheduler_thread_second(ok, len, MaxLoads)
    \/ fsp_scheduler_thread_test
    \/ fsp_scheduler_thread_wait
    \/ \E ok \in BOOLEAN, len \in FileFrames :
          fsp_scheduler_thread_woken(ok, len, MaxLoads)
    \/ fsp_decoder_thread_wait
    \/ fsp_decoder_thread_wait_returns
    \/ fsp_decoder_thread
    \/ fsp_on_process(FSP_PERIOD_SIZE)

SpecSig == InitPlayerOnly /\ [][NextSig]_vars

\* Pause and resume requests on a player that runs on files that do not end,
\* with a decoder that keeps ahead of the sink: the callback runs while the
\* decoder waits for room in the ring buffer, so that every buffer the sink
\* asks for is supplied.
NextFade ==
    \/ \E signo \in { "SIGUSR1", "SIGUSR2" } : fsp_signal_handler(signo)
    \/ fsp_start
    \/ fsp_scheduler_thread_first(TRUE, LongFile, MaxLoads)
    \/ fsp_scheduler_thread_second(TRUE, LongFile, MaxLoads)
    \/ fsp_scheduler_thread_test
    \/ fsp_scheduler_thread_wait
    \/ fsp_decoder_thread_wait
    \/ fsp_decoder_thread_wait_returns
    \/ fsp_decoder_thread
    \/ dec_pc = "wait_space" /\ fsp_on_process(FSP_PERIOD_SIZE)

SpecFade == InitPlayerOnly /\ [][NextFade]_vars

\* The ring buffer between the decoder and the callback, with buffers of a
\* period and of half a period asked for by the sink.
NextRing ==
    \/ fsp_start
    \/ fsp_scheduler_thread_first(TRUE, LongFile, MaxLoads)
    \/ fsp_scheduler_thread_second(TRUE, LongFile, MaxLoads)
    \/ fsp_scheduler_thread_test
    \/ fsp_scheduler_thread_wait
    \/ fsp_decoder_thread_wait
    \/ fsp_decoder_thread_wait_returns
    \/ fsp_decoder_thread
    \/ \E n \in { FSP_PERIOD_SIZE \div 2, FSP_PERIOD_SIZE } : fsp_on_process(n)

SpecRing == InitPlayerOnly /\ [][NextRing]_vars

(***************************************************************************)
(* main(): the initialisation steps and the cleanup that follows a failed  *)
(* one (main.c:86-139).  A run in which every step succeeds ends here at   *)
(* the call of fsp_start, where the player's specifications begin.         *)
(***************************************************************************)
\* main() before sig_dispatcher_init: the structs are zeroed (main.c:31-34).
InitMainZero ==
    /\ mn = [ pc |-> "sd_init", ret |-> 0, failed |-> FALSE, freed |-> FALSE ]
    /\ sd = [ thread |-> "none", running |-> FALSE, handlers |-> { },
              signo |-> "none" ]
    /\ mh = [ running |-> FALSE, thread |-> "none" ]

\* main() after a failed step: ret is set and control goes to cleanup.
main_goto_cleanup(m, code) ==
    [ m EXCEPT !.pc = "mh_cleanup", !.ret = code, !.failed = TRUE ]

\* The process is killed by undefined behaviour.
main_crash(m) == [ m EXCEPT !.pc = "crash" ]

\* sig_dispatcher_init().  On failure it calls sig_dispatcher_cleanup itself,
\* which joins thread id 0: the join may fail with an error or crash.
main_sig_dispatcher_init(ok) ==
    /\ mn.pc = "sd_init"
    /\ mn' \in IF ok THEN { [ mn EXCEPT !.pc = "sd_start" ] }
               ELSE { main_goto_cleanup(mn, -1),
                      main_crash([ mn EXCEPT !.failed = TRUE ]) }
    /\ UNCHANGED << sd, mh >>
    /\ UNCHANGED << schedVars, playerVars, plsVars, auxVars >>

\* sig_dispatcher_start(): running is set and the thread created; main
\* ignores the result.
main_sig_dispatcher_start(ok) ==
    /\ mn.pc = "sd_start"
    /\ sd' = [ sd EXCEPT !.running = TRUE,
                         !.thread = IF ok THEN "run" ELSE "none" ]
    /\ mn' = [ mn EXCEPT !.pc = "sched_init" ]
    /\ UNCHANGED mh
    /\ UNCHANGED << schedVars, playerVars, plsVars, auxVars >>

\* sched_init() called by main: -1 if the config does not load.
main_sched_init ==
    /\ mn.pc = "sched_init"
    /\ sched_init_call
    /\ mn' = IF crashed' THEN main_crash([ mn EXCEPT !.failed = TRUE ])
             ELSE IF call'.ret < 0 THEN main_goto_cleanup(mn, -1)
             ELSE [ mn EXCEPT !.pc = "mh_init" ]
    /\ UNCHANGED << sd, mh, auxVars >>

\* mh_init(): registers META with the dispatcher as its last step; -2 in
\* main if the sockets cannot be set up.
main_mh_init(ok) ==
    /\ mn.pc = "mh_init"
    /\ IF ok
       THEN /\ sd' = [ sd EXCEPT !.handlers = @ \cup { "META" } ]
            /\ mn' = [ mn EXCEPT !.pc = "mh_start" ]
       ELSE /\ sd' = sd
            /\ mn' = main_goto_cleanup(mn, -2)
    /\ UNCHANGED mh
    /\ UNCHANGED << schedVars, playerVars, plsVars, auxVars >>

\* mh_start(): running is set and the server thread created (thread id 0 if
\* that fails); main ignores the result.
main_mh_start(ok) ==
    /\ mn.pc = "mh_start"
    /\ mh' = [ running |-> TRUE, thread |-> IF ok THEN "run" ELSE "none" ]
    /\ mn' = [ mn EXCEPT !.pc = "fsp_init" ]
    /\ UNCHANGED sd
    /\ UNCHANGED << schedVars, playerVars, plsVars, auxVars >>

\* The outcomes of fsp_init: success, no ring buffer (fails before PLAYER is
\* registered), no loop or stream (fails after the registration).
FspInitOutcomes == { "ok", "no_ring", "no_loop" }

\* fsp_init(): on failure it calls fsp_cleanup itself, which frees the ring
\* buffer and leaves the pointer in place; -3 in main.
main_fsp_init(r) ==
    /\ mn.pc = "fsp_init"
    /\ sd' = [ sd EXCEPT !.handlers =
                 IF r = "no_ring" THEN @ ELSE @ \cup { "PLAYER" } ]
    /\ mn' = IF r = "ok" THEN [ mn EXCEPT !.pc = "fsp_start" ]
             ELSE [ main_goto_cleanup(mn, -3) EXCEPT !.freed = (r = "no_loop") ]
    /\ UNCHANGED mh
    /\ UNCHANGED << schedVars, playerVars, plsVars, auxVars >>

\* cleanup: mh_cleanup() closes the sockets; it neither stops nor joins the
\* server thread.
main_mh_cleanup ==
    /\ mn.pc = "mh_cleanup"
    /\ mn' = [ mn EXCEPT !.pc = "fsp_cleanup" ]
    /\ UNCHANGED << sd, mh >>
    /\ UNCHANGED << schedVars, playerVars, plsVars, auxVars >>

\* cleanup: fsp_cleanup() on a player that never started.  It frees the ring
\* buffer a second time after a failed fsp_init that had created it, and
\* its fsp_stop joins threads that were never created unless the state is
\* Stopped or Stopping: both may crash.
main_fsp_cleanup ==
    /\ mn.pc = "fsp_cleanup"
    /\ mn' \in IF mn.freed \/ state \notin { "STOPPED", "STOPPING" }
               THEN { [ mn EXCEPT !.pc = "sched_cleanup" ], main_crash(mn) }
               ELSE { [ mn EXCEPT !.pc = "sched_cleanup" ] }
    /\ UNCHANGED << sd, mh >>
    /\ UNCHANGED << schedVars, playerVars, plsVars, auxVars >>

\* cleanup: sched_cleanup().
main_sched_cleanup ==
    /\ mn.pc = "sched_cleanup"
    /\ mn' = [ mn EXCEPT !.pc = "sd_cleanup" ]
    /\ UNCHANGED << sd, mh >>
    /\ UNCHANGED << schedVars, playerVars, plsVars, auxVars >>

\* cleanup: sig_dispatcher_cleanup() clears running and calls pthread_join.
main_sig_dispatcher_cleanup ==
    /\ mn.pc = "sd_cleanup"
    /\ sd' = [ sd EXCEPT !.running = FALSE ]
    /\ mn' = [ mn EXCEPT !.pc = "sd_join" ]
    /\ UNCHANGED mh
    /\ UNCHANGED << schedVars, playerVars, plsVars, auxVars >>

\* pthread_join(sd->thread) returns once sig_thread has returned, and main
\* returns ret.  A thread that was never created is joined through thread
\* id 0, which may crash.
main_sig_dispatcher_join ==
    /\ mn.pc = "sd_join"
    /\ sd.thread # "run"
    /\ mn' \in IF sd.thread = "none"
               THEN { [ mn EXCEPT !.pc = "exit" ], main_crash(mn) }
               ELSE { [ mn EXCEPT !.pc = "exit" ] }
    /\ UNCHANGED << sd, mh >>
    /\ UNCHANGED << schedVars, playerVars, plsVars, auxVars >>

\* The steps the program takes by itself: main's, and those of a dispatcher
\* thread that has read a signal.
MainStep ==
    \/ \E ok \in BOOLEAN : main_sig_dispatcher_init(ok)
    \/ \E ok \in BOOLEAN : main_sig_dispatcher_start(ok)
    \/ main_sched_init
    \/ \E ok \in BOOLEAN : main_mh_init(ok)
    \/ \E ok \in BOOLEAN : main_mh_start(ok)
    \/ \E r \in FspInitOutcomes : main_fsp_init(r)
    \/ main_mh_cleanup
    \/ main_fsp_cleanup
    \/ main_sched_cleanup
    \/ main_sig_dispatcher_cleanup
    \/ main_sig_dispatcher_join
    \/ sig_thread_meta
    \/ mn.pc # "crash" /\ fsp_stop_join_scheduler("sig")
    \/ mn.pc # "crash" /\ fsp_stop_join_decoder("sig")

\* A signal arrives from outside while the process lives.
SignalArrives ==
    /\ mn.pc \notin { "exit", "crash" }
    /\ \E signo \in AllSignals : sig_thread(signo)

InitMain == InitCfgOf(CfgFiles) /\ InitMainZero /\ InitAux

NextMain == MainStep \/ SignalArrives

SpecMain == InitMain /\ [][NextMain]_vars

(***************************************************************************)
(* The metadata endpoint serving requests while the player plays.          *)
(***************************************************************************)
NextMeta ==
    \/ mh_register_state_callback
    \/ WallTick
    \/ \E n \in Tracks : PlayerPlays(n)
    \/ mh_handle_client

SpecMeta == InitPlayerOnly /\ [][NextMeta]_vars

(***************************************************************************)
(* pls_shuffle on every playlist of up to MaxItems items.                  *)
(***************************************************************************)
ShuffleInputs ==
    UNION { [ 1..n -> ItemNames ] : n \in 0..MaxItems }

InitShuffle ==
    /\ InitBase
    /\ InitMeta
    /\ InitTrk
    /\ InitFl
    /\ InitCbk
    /\ \E its \in ShuffleInputs :
          shuf = [ NoShuffle EXCEPT !.pc = "call", !.orig = its, !.items = its ]

NextShuffle ==
    \/ \E ok \in BOOLEAN : pls_shuffle_begin(ok)
    \/ \E rnd \in 0..MaxRand : pls_shuffle_loop(rnd)

SpecShuffle == InitShuffle /\ [][NextShuffle]_vars

(***************************************************************************)
(* The gain of one track: ReplayGain and the per-track fade envelope.      *)
(* Floats are fixed-point numbers: gains in thousandths, the fade slopes   *)
(* in units of 10^-9 per sample.                                           *)
(***************************************************************************)
Unity == 1000
SlopeUnit == 1000000000

\* size_t, narrowed to 30 bits; every count of the model stays below 2^20.
SizeBits == 30
SizeRange == 2 ^ SizeBits

\* powf(10.0f, track_gain / 20.0f) in thousandths, for the track gains (dB)
\* of the model.
TrackGains == { -6, -3, 0, 3, 6 }
powf10(db) ==
    CASE db = -6 -> 501
      [] db = -3 -> 708
      [] db = 0 -> 1000
      [] db = 3 -> 1413
      [] db = 6 -> 1995

\* REPLAYGAIN_TRACK_PEAK in thousandths; 0 is what a missing tag maps to.
TrackPeaks == { 0, 500, 800, 1000, 1250 }

\* playlist->fader: none, or the two durations in seconds.
NoFader == [ present |-> FALSE, fadein_duration_secs |-> 0,
             fadeout_duration_secs |-> 0 ]
MaxFadeIn == 2
MaxFadeOut == 1
Faders ==
    { NoFader } \cup
    { [ present |-> TRUE, fadein_duration_secs |-> fi,
        fadeout_duration_secs |-> fo ] :
          << fi, fo >> \in ((0..MaxFadeIn) \X (0..MaxFadeOut))
                              \ { << 0, 0 >> } }

\* duration_secs of the tracks, the frames one pass of the copy loop of
\* fsp_extract_frames handles, and by how many chunks of that size the
\* decoded file is longer than duration_secs says (the media loader
\* truncates or rounds the duration to whole seconds).
MinDuration == 2
MaxDuration == 3
ChunkFrames == FSP_OUTPUT_SAMPLE_RATE \div 4
MaxExcessChunks == 2

TrackInfos ==
    { [ track_gain |-> g, track_peak |-> p, duration_secs |-> d,
        fader_info |-> f ] :
          g \in TrackGains, p \in TrackPeaks, d \in MinDuration..MaxDuration,
          f \in Faders }

\* An fsp_replaygain_setup() that takes a missing peak to mean no limit.
fsp_replaygain_setup_nolimit(info) ==
    LET gain == IF info.track_gain # 0 THEN powf10(info.track_gain) ELSE Unity
    IN  IF info.track_peak # 0
        THEN [ replay_gain |-> Min(gain, (Unity * Unity) \div info.track_peak),
               gain_limit |-> (Unity * Unity) \div info.track_peak ]
        ELSE [ replay_gain |-> gain, gain_limit |-> Unity ]

\* fsp_replaygain_setup(): the linear gain of the track gain (unity when the
\* gain is 0), the limit 1/track_peak (unity when the peak is 0), and the
\* gain cut down to the limit.
fsp_replaygain_setup(info) ==
    LET gain == IF info.track_gain # 0 THEN powf10(info.track_gain) ELSE Unity
        limit == IF info.track_peak # 0
                 THEN (Unity * Unity) \div info.track_peak
                 ELSE Unity
    IN  [ replay_gain |-> IF gain > limit THEN limit ELSE gain,
          gain_limit |-> limit ]

\* fsp_fader_setup(): a slope for each duration that is positive and shorter
\* than the track, else 0.
fsp_fader_setup(info) ==
    LET fdr == info.fader_info
        slope(secs) ==
            IF secs > 0 /\ secs < info.duration_secs
            THEN SlopeUnit \div (FSP_OUTPUT_SAMPLE_RATE * secs)
            ELSE 0
    IN  IF ~fdr.present THEN [ fade_in_slope |-> 0, fade_out_slope |-> 0 ]
        ELSE [ fade_in_slope |-> slope(fdr.fadein_duration_secs),
               fade_out_slope |-> slope(fdr.fadeout_duration_secs) ]

\* The fader gain fsp_extract_frames computes for a chunk, with the branch
\* taken: fade-in, fade-out, or neither.
fsp_fader_gain(ctx) ==
    LET fdr == ctx.info.fader_info
        remaining_ctx_samples ==
            (ctx.total_samples - ctx.samples_played) % SizeRange
    IN  IF ctx.fader.fade_in_slope > 0 /\
           ctx.samples_played < fdr.fadein_duration_secs * FSP_OUTPUT_SAMPLE_RATE
        THEN [ seg |-> "in",
               gain |-> (ctx.fader.fade_in_slope * ctx.samples_played)
                            \div (SlopeUnit \div Unity) ]
        ELSE IF ctx.fader.fade_out_slope > 0 /\
                remaining_ctx_samples <
                    fdr.fadeout_duration_secs * FSP_OUTPUT_SAMPLE_RATE
        THEN [ seg |-> "out",
               gain |-> (ctx.fader.fade_out_slope * remaining_ctx_samples)
                            \div (SlopeUnit \div Unity) ]
        ELSE [ seg |-> "none", gain |-> Unity ]

NoChunk == [ seg |-> "none", gain |-> Unity ]

\* fsp_audiofile_ctx_init(): the info is copied, the counters are set, the
\* decoder is opened (or the call fails), replaygain and fader are set up.
fsp_audiofile_ctx_init(ok) ==
    /\ trk.pc = "init"
    /\ trk' = IF ~ok THEN [ trk EXCEPT !.pc = "failed" ]
              ELSE [ trk EXCEPT
                       !.pc = "play",
                       !.samples_played = 0,
                       !.total_samples =
                           trk.info.duration_secs * FSP_OUTPUT_SAMPLE_RATE
                               * FSP_OUTPUT_CHANNELS,
                       !.replaygain = fsp_replaygain_setup(trk.info),
                       !.fader = fsp_fader_setup(trk.info) ]
    /\ UNCHANGED << coreVars, notTrk >>

\* One pass of the copy loop of fsp_extract_frames: up to frames_to_copy
\* frames, as many as the file still has, get the fader gain times the
\* replay gain.
fsp_extract_frames_copy(frames_to_copy) ==
    /\ trk.pc = "play"
    /\ trk.samples_played < trk.file_samples
    /\ \E g \in { fsp_fader_gain(trk) } :
          trk' = [ trk EXCEPT
                     !.prev = trk.last,
                     !.last = g,
                     !.chunks = @ + 1,
                     !.gain_factor = (g.gain * trk.replaygain.replay_gain)
                                         \div Unity,
                     !.samples_played =
                         @ + Min(frames_to_copy * FSP_OUTPUT_CHANNELS,
                                 trk.file_samples - trk.samples_played) ]
    /\ UNCHANGED << coreVars, notTrk >>

InitTrack ==
    /\ InitBase
    /\ InitMeta
    /\ InitShuf
    /\ InitFl
    /\ InitCbk
    /\ \E i \in TrackInfos, x \in 0..MaxExcessChunks :
          trk = [ pc |-> "init", info |-> i,
                  file_samples |->
                      i.duration_secs * FSP_OUTPUT_SAMPLE_RATE
                          * FSP_OUTPUT_CHANNELS
                      + x * ChunkFrames * FSP_OUTPUT_CHANNELS,
                  replaygain |-> [ replay_gain |-> 0, gain_limit |-> 0 ],
                  fader |-> [ fade_in_slope |-> 0, fade_out_slope |-> 0 ],
                  total_samples |-> 0, samples_played |-> 0, chunks |-> 0,
                  gain_factor |-> 0, last |-> NoChunk, prev |-> NoChunk ]

NextTrack ==
    \/ \E ok \in BOOLEAN : fsp_audiofile_ctx_init(ok)
    \/ \E n \in { ChunkFrames, 2 * ChunkFrames } : fsp_extract_frames_copy(n)

SpecTrack == InitTrack /\ [][NextTrack]_vars

(***************************************************************************)
(* current, next and file_mutex, as the scheduler thread, the decoder      *)
(* thread and the endpoint's thread (inside fsp_mh_cb) use them.  Each     *)
(* step is one statement or call of the source; fl.acc says what the step  *)
(* touched, and whether its thread held file_mutex.  The ring buffer is    *)
(* left out: the decoder thread finds space whenever it looks.             *)
(***************************************************************************)
MaxSlotLoads == 4
MaxSlotTime == 1

\* A slot after memset, and the track that the i-th call of sched_get_next
\* yields: tracks of 2 s and of 1 s in turn, one decode buffer per second.
ZeroSlot == [ id |-> 0, duration_secs |-> 0, init |-> "zero", left |-> 0 ]
SlotTrack(i) == [ id |-> i, duration_secs |-> 1 + (i % 2), init |-> "partial",
                  left |-> 1 + (i % 2) ]

NoAsk == [ made |-> FALSE, sched_time |-> 0, now |-> 0, current |-> 0 ]

Access(f, by, slot, op) ==
    [ by |-> by, slot |-> slot, op |-> op, held |-> f.file_mutex = by ]

\* How a thread that holds no special care reads next: a next whose
\* fsp_audiofile_ctx_init is under way is read partially initialised.
ReadNext(f, by) ==
    Access(f, by, "next",
           IF f.next.init = "partial" THEN "read_partial" ELSE "read")

\* fsp_stop() as far as the slots' threads see it: the state is Stopping and
\* both conditions are signalled.
fsp_stop_signal(f) ==
    IF f.stopping THEN f
    ELSE [ f EXCEPT !.stopping = TRUE,
                    !.sched.pc = signal_scheduler_cond(@),
                    !.dec.pc = signal_decoder_cond(@) ]

\* fsp_scheduler_thread() after pthread_cond_wait has returned: out of the
\* loop when Stopping, else sched_time is computed and file_mutex is to be
\* taken.
fsp_scheduler_thread_woken_step(f) ==
    IF f.stopping THEN [ f EXCEPT !.sched.pc = "stop", !.acc = { } ]
    ELSE [ f EXCEPT !.sched.now = f.time,
                    !.sched.sched_time = f.time + f.sched.curr_duration,
                    !.sched.pc = "lock",
                    !.acc = { } ]

\* One step of fsp_scheduler_thread(), fsp_load_next_file() and
\* fsp_audiofile_ctx_init() included; ok says whether the call of the step
\* succeeds.  sched.load tells the three loads apart: the first and the
\* second at start-up, the third in the loop.
fsp_scheduler_thread_step(f, ok) ==
    LET s == f.sched
        io == { Access(f, "sched", "none", "io") }
        failed(g) == IF s.load = 3
                     THEN [ g EXCEPT !.sched.pc = "unlock", !.sched.ret = -1 ]
                     ELSE [ g EXCEPT !.sched.pc = "done", !.sched.ret = -1 ]
    IN  CASE s.pc = "start" ->
               [ f EXCEPT !.sched.sched_time = f.time, !.sched.load = 1,
                          !.sched.pc = "get", !.acc = { } ]
          [] s.pc = "get" ->
               LET g == [ f EXCEPT
                            !.acc = io,
                            !.ask = IF s.load = 3
                                    THEN [ made |-> TRUE,
                                           sched_time |-> s.sched_time,
                                           now |-> s.now,
                                           current |-> f.current.duration_secs ]
                                    ELSE @ ]
               IN  IF ok THEN [ g EXCEPT !.sched.nloads = @ + 1,
                                         !.sched.pc = "init" ]
                   ELSE failed(g)
          [] s.pc = "init" ->
               [ f EXCEPT !.next = SlotTrack(s.nloads),
                          !.sched.pc = "open",
                          !.acc = { Access(f, "sched", "next", "write") } ]
          [] s.pc = "open" ->
               IF ok
               THEN [ f EXCEPT !.next.init = "full",
                               !.sched.pc = CASE s.load = 1 -> "move_lock"
                                              [] s.load = 2 -> "signal"
                                              [] OTHER -> "unlock",
                               !.acc = io \cup
                                       { Access(f, "sched", "next", "write") } ]
               ELSE failed([ f EXCEPT !.acc = io ])
          [] s.pc = "move_lock" ->
               [ f EXCEPT !.file_mutex = "sched", !.sched.pc = "move",
                          !.acc = { } ]
          [] s.pc = "move" ->
               [ f EXCEPT !.current = f.next, !.next = ZeroSlot,
                          !.sched.pc = "move_unlock",
                          !.acc = { Access(f, "sched", "current", "write"),
                                    ReadNext(f, "sched"),
                                    Access(f, "sched", "next", "write") } ]
          [] s.pc = "move_unlock" ->
               [ f EXCEPT !.file_mutex = "none", !.sched.pc = "read_current",
                          !.acc = { } ]
          [] s.pc = "read_current" ->
               [ f EXCEPT !.sched.curr_duration = f.current.duration_secs,
                          !.sched.sched_time = @ + f.current.duration_secs,
                          !.sched.load = 2,
                          !.sched.pc = "get",
                          !.acc = { Access(f, "sched", "current", "read") } ]
          [] s.pc = "signal" ->
               [ f EXCEPT !.dec.pc = signal_decoder_cond(@),
                          !.sched.pc = "test", !.acc = { } ]
          [] s.pc = "test" ->
               [ f EXCEPT !.sched.pc = IF f.stopping THEN "stop" ELSE "save",
                          !.acc = { } ]
          [] s.pc = "save" ->
               [ f EXCEPT !.sched.curr_duration = f.next.duration_secs,
                          !.sched.pc = "prewait",
                          !.acc = { ReadNext(f, "sched") } ]
          [] s.pc = "prewait" ->
               [ f EXCEPT !.sched.pc = "wait", !.acc = { } ]
          [] s.pc = "woken" -> fsp_scheduler_thread_woken_step(f)
          [] s.pc = "lock" ->
               [ f EXCEPT !.file_mutex = "sched", !.sched.load = 3,
                          !.sched.pc = "get", !.acc = { } ]
          [] s.pc = "unlock" ->
               [ f EXCEPT !.file_mutex = IF @ = "sched" THEN "none" ELSE @,
                          !.sched.pc = IF s.ret < 0 THEN "stop" ELSE "signal",
                          !.acc = { } ]
          [] s.pc = "stop" ->
               [ fsp_stop_signal(f) EXCEPT !.sched.pc = "done", !.acc = { } ]

\* An fsp_decoder_thread() that does not take file_mutex.
fsp_decoder_thread_lock_skipped(f) ==
    [ f EXCEPT !.dec.pc = "extract", !.acc = { } ]

\* fsp_decoder_thread() takes file_mutex.
fsp_decoder_thread_lock(f) ==
    [ f EXCEPT !.file_mutex = "dec", !.dec.pc = "extract", !.acc = { } ]

\* One step of fsp_decoder_thread(): it waits for decoder_cond, and then,
\* until Stopping, takes file_mutex, extracts a buffer from current, and
\* when current gave less than a buffer and next has a decoder, frees
\* current, moves next to current, zeroes next, signals scheduler_cond and
\* extracts from the new current; it releases file_mutex.
fsp_decoder_thread_step(f) ==
    LET d == f.dec
        rw == { Access(f, "dec", "current", "read"),
                Access(f, "dec", "current", "write") }
        got(c) == IF c.init = "full" /\ ~f.stopping /\ c.left > 0 THEN 1 ELSE 0
    IN  CASE d.pc = "init" -> [ f EXCEPT !.dec.pc = "wait_start", !.acc = { } ]
          [] d.pc = "loop" ->
               [ f EXCEPT !.dec.pc = IF f.stopping THEN "stop" ELSE "lock",
                          !.acc = { } ]
          [] d.pc = "lock" -> fsp_decoder_thread_lock(f)
          [] d.pc = "extract" ->
               IF got(f.current) = 1
               THEN [ f EXCEPT !.current.left = @ - 1, !.dec.pc = "unlock",
                               !.acc = rw ]
               ELSE [ f EXCEPT !.dec.pc = IF f.next.init = "full"
                                          THEN "promote" ELSE "unlock",
                               !.acc = rw \cup { ReadNext(f, "dec") } ]
          [] d.pc = "promote" ->
               [ f EXCEPT !.current = f.next, !.next = ZeroSlot,
                          !.promoted = @ + 1,
                          !.dec.pc = "signal",
                          !.acc = { Access(f, "dec", "current", "write"),
                                    ReadNext(f, "dec"),
                                    Access(f, "dec", "next", "write") } ]
          [] d.pc = "signal" ->
               [ f EXCEPT !.sched.pc = signal_scheduler_cond(@),
                          !.current.left = @ - got(f.current),
                          !.dec.pc = "unlock",
                          !.acc = rw ]
          [] d.pc = "unlock" ->
               [ f EXCEPT !.file_mutex = IF @ = "dec" THEN "none" ELSE @,
                          !.dec.pc = "loop", !.acc = { } ]
          [] d.pc = "stop" ->
               [ fsp_stop_signal(f) EXCEPT !.dec.pc = "done", !.acc = { } ]

\* One step of fsp_mh_cb() on the endpoint's thread.  mh_update_response
\* calls it with the elapsed_sec pointer alone, and then the elapsed
\* seconds are computed from current.samples_played and it returns; or with
\* the cur and next pointers alone (infos), and then it takes file_mutex,
\* copies both infos and releases it.
fsp_mh_cb_step(f, infos) ==
    CASE f.http.pc = "idle" ->
           [ f EXCEPT !.http.pc = IF infos THEN "lock" ELSE "elapsed",
                      !.acc = { } ]
      [] f.http.pc = "elapsed" ->
           [ f EXCEPT !.http.pc = "idle",
                      !.acc = { Access(f, "http", "current", "read") } ]
      [] f.http.pc = "lock" ->
           [ f EXCEPT !.file_mutex = "http", !.http.pc = "copy", !.acc = { } ]
      [] f.http.pc = "copy" ->
           [ f EXCEPT !.http.pc = "unlock",
                      !.acc = { Access(f, "http", "current", "read"),
                                ReadNext(f, "http") } ]
      [] f.http.pc = "unlock" ->
           [ f EXCEPT !.file_mutex = "none", !.http.pc = "idle", !.acc = { } ]

\* pthread_mutex_lock(file_mutex) returns only when no other thread holds it.
LockSteps == { "lock", "move_lock" }

SchedulerThread(ok) ==
    /\ fl.sched.pc \notin { "wait", "done" }
    /\ fl.sched.pc \in LockSteps => fl.file_mutex = "none"
    /\ fl.sched.pc = "get" => fl.sched.nloads < MaxSlotLoads
    /\ ok \/ fl.sched.pc \in { "get", "open" }
    /\ fl' = fsp_scheduler_thread_step(fl, ok)
    /\ UNCHANGED << coreVars, notFl >>

DecoderThread ==
    /\ fl.dec.pc \notin { "wait_start", "done" }
    /\ fl.dec.pc \in LockSteps => fl.file_mutex = "none"
    /\ fl' = fsp_decoder_thread_step(fl)
    /\ UNCHANGED << coreVars, notFl >>

MetaCallback(infos) ==
    /\ fl.http.pc \in LockSteps => fl.file_mutex = "none"
    /\ infos \/ fl.http.pc = "idle"
    /\ fl' = fsp_mh_cb_step(fl, infos)
    /\ UNCHANGED << coreVars, notFl >>

\* SIGINT or SIGTERM: the dispatcher thread calls fsp_stop.
StopRequested ==
    /\ ~fl.stopping
    /\ fl' = [ fsp_stop_signal(fl) EXCEPT !.acc = { } ]
    /\ UNCHANGED << coreVars, notFl >>

\* The clock reaches the next second.
SlotTick ==
    /\ fl.time < MaxSlotTime
    /\ fl' = [ fl EXCEPT !.time = @ + 1, !.acc = { } ]
    /\ UNCHANGED << coreVars, notFl >>

\* fsp_start() has created both threads; the endpoint serves requests.
InitSlots ==
    /\ InitBase
    /\ InitMeta
    /\ InitShuf
    /\ InitTrk
    /\ InitCbk
    /\ fl = [ file_mutex |-> "none", current |-> ZeroSlot, next |-> ZeroSlot,
              stopping |-> FALSE, time |-> 0, promoted |-> 0,
              sched |-> [ pc |-> "start", load |-> 0, sched_time |-> 0,
                          now |-> 0, curr_duration |-> 0, ret |-> 0,
                          nloads |-> 0 ],
              dec |-> [ pc |-> "init" ],
              http |-> [ pc |-> "idle" ],
              ask |-> NoAsk, acc |-> { } ]

NextSlots ==
    \/ \E ok \in BOOLEAN : SchedulerThread(ok)
    \/ DecoderThread
    \/ \E infos \in BOOLEAN : MetaCallback(infos)
    \/ StopRequested
    \/ SlotTick

SpecSlots == InitSlots /\ [][NextSlots]_vars

(***************************************************************************)
(* The output callback while the player runs.  The run starts in the       *)
(* middle of play: Playing with up to MaxPeriods periods in the ring and   *)
(* the decoder thread about to decode (states SpecRing reaches), or Paused *)
(* with a full ring and the decoder thread waiting for space (a state      *)
(* SpecFade reaches).  From there the decoder thread is slow: it gets to   *)
(* run only once the player is Stopping, so the ring is drained.           *)
(***************************************************************************)
MaxCallbacks == 3
MaxPeriods == 2

MidPlay(st, periods) ==
    /\ state = st
    /\ fader = [ active |-> FALSE,
                 samples_out |-> 47 * FSP_PERIOD_SIZE,
                 gain |-> IF st = "PLAYING" THEN state_fade_samples_tot ELSE 0 ]
    /\ ring = IF st = "PLAYING" THEN periods * buffer_size
              ELSE ring_size - buffer_size
    /\ current = fsp_load_next_file(LongFile)
    /\ next = fsp_load_next_file(LongFile)
    /\ loop_quit = FALSE
    /\ stream = TRUE
    /\ freed = FALSE
    /\ main_pc = "loop"
    /\ sig_pc = "idle"
    /\ sched_pc = "wait"
    /\ dec_pc = IF st = "PLAYING" THEN "loop" ELSE "wait_space"
    /\ stopper = [ c \in Callers |-> "no" ]
    /\ nloads = 2
    /\ set_from = IF st = "PLAYING" THEN "STOPPED" ELSE "RESUMING"
    /\ fade = IF st = "PLAYING"
              THEN [ dir |-> "in", from |-> "STOPPED", mono |-> TRUE,
                     last |-> state_fade_samples_tot, done |-> TRUE,
                     end |-> "PLAYING" ]
              ELSE [ dir |-> "out", from |-> "RESUMING", mono |-> TRUE,
                     last |-> 0, done |-> TRUE, end |-> "PAUSED" ]
    /\ out_gain = IF st = "PLAYING" THEN state_fade_samples_tot ELSE 0
    /\ quiet = (st = "PAUSED")
    /\ stop_ret = NoStop
    /\ overrun = FALSE
    /\ underread = FALSE

InitCallback ==
    /\ InitSched({ << 0 >> }, FALSE)
    /\ InitPls
    /\ InitMainStarted
    /\ InitAux
    /\ \/ \E periods \in 0..MaxPeriods : MidPlay("PLAYING", periods)
       \/ MidPlay("PAUSED", 0)

NextCallback ==
    \/ \E signo \in Signals : fsp_signal_handler(signo)
    \/ pw_main_loop_run
    \/ \E c \in { "main", "sched", "dec" } : fsp_stop(c)
    \/ \E c \in Callers : fsp_stop_join_scheduler(c)
    \/ \E c \in Callers : fsp_stop_join_decoder(c)
    \/ fsp_scheduler_thread_woken(TRUE, LongFile, MaxLoads)
    \/ state = "STOPPING" /\ fsp_decoder_thread
    \/ cbk.calls < MaxCallbacks /\ fsp_on_process_cb(FSP_PERIOD_SIZE, TRUE)
    \/ cbk.calls < MaxCallbacks /\ fsp_on_process_nobuf

SpecCallback == InitCallback /\ [][NextCallback]_vars

(***************************************************************************)
(* The player's threads on their own: no pause or resume request, SIGINT   *)
(* at any moment, loads that may fail, waits that may return without a     *)
(* signal.                                                                 *)
(***************************************************************************)
NextThreads ==
    \/ fsp_signal_handler("SIGINT")
    \/ fsp_start
    \/ pw_main_loop_run
    \/ fsp_cleanup
    \/ \E c \in { "main", "sched", "dec" } : fsp_stop(c)
    \/ \E c \in Callers : fsp_stop_join_scheduler(c)
    \/ \E c \in Callers : fsp_stop_join_decoder(c)
    \/ \E ok \in BOOLEAN, len \in FileFrames :
          fsp_scheduler_thread_first(ok, len, MaxLoads)
    \/ \E ok \in BOOLEAN, len \in FileFrames :
          fsp_scheduler_thread_second(ok, len, MaxLoads)
    \/ fsp_scheduler_thread_test
    \/ fsp_scheduler_thread_wait
    \/ fsp_scheduler_thread_wait_returns
    \/ \E ok \in BOOLEAN, len \in FileFrames :
          fsp_scheduler_thread_woken(ok, len, MaxLoads)
    \/ fsp_decoder_thread_wait
    \/ fsp_decoder_thread_wait_returns
    \/ fsp_decoder_thread
    \/ fsp_on_process(FSP_PERIOD_SIZE)

SpecThreads == InitPlayerOnly /\ [][NextThreads]_vars

(***************************************************************************)
(* Properties of the schedule engine.                                      *)
(***************************************************************************)
\* The time of day, in seconds, of an instant and of a zone's Start.
TimeOfDay(t) == t % SecsPerDay
ZoneStart(zn) ==
    zn.start_time.hour * 3600 + zn.start_time.min * 60 + zn.start_time.sec

\* The day schedule the last call looked at, and its zone.
CallDay == cfg.days[localtime(call.sched_time).wday + 1]
CallZone == CallDay[call.zone + 1]

\* The zones (0-based) of that day that start at or before the target's
\* time of day.
StartedZones ==
    { i \in 0..(Len(CallDay) - 1) :
         ZoneStart(CallDay[i + 1]) <= TimeOfDay(call.sched_time) }

SetMax(S) == CHOOSE x \in S : \A y \in S : y <= x

\* C1: a call that selects a zone selects the last zone of the target's day
\* whose Start time of day is at or before the target's time of day; a target
\* exactly at a zone's Start belongs to that zone.
C1_LastZoneStartedAtOrBefore ==
    (call.zone >= 0 /\ StartedZones # { }) => call.zone = SetMax(StartedZones)

\* The intermediates (zone, index; 0-based) of the day the calls fall on.
Intermediates ==
    LET ds == cfg.days[localtime(LoadTime).wday + 1]
    IN  { << zi, i >> \in (0..2) \X (0..1) :
             zi < Len(ds) /\ i < Len(ds[zi + 1].others) }
IntermediateOf(k) ==
    cfg.days[localtime(LoadTime).wday + 1][k[1] + 1].others[k[2] + 1]

\* The values last_scheduled of intermediate k has had since the load.
LastFiredAt(k) ==
    { LoadTime } \cup { f[3] : f \in { g \in fires : g[1] = k[1] /\ g[2] = k[2] } }

\* The number of items intermediate k returned at targets in [lo, hi].
DrawsIn(k, lo, hi) ==
    Cardinality({ n \in 1..Len(draws) :
                     /\ draws[n][1] = k[1] /\ draws[n][2] = k[2]
                     /\ lo <= draws[n][3] /\ draws[n][3] <= hi })

\* C2: with a frozen config and non-decreasing targets, in every window of
\* N*I minutes that starts at a last_scheduled value of an intermediate with
\* interval I and K items per firing, at most N*K items come from it.
C2_BurstRate ==
    mono =>
      \A k \in Intermediates, N \in 1..MaxWindows :
         \A L \in LastFiredAt(k) :
            DrawsIn(k, L, L + N * IntermediateOf(k).sched_interval_mins * 60)
               <= N * IntermediateOf(k).num_sched_items

\* A window of two or more intervals that holds exactly N*K items.
C2_FullWindow ==
    /\ mono
    /\ \E k \in Intermediates, N \in 2..MaxWindows :
         \E L \in LastFiredAt(k) :
            DrawsIn(k, L, L + N * IntermediateOf(k).sched_interval_mins * 60)
               = N * IntermediateOf(k).num_sched_items

\* The burst scenario is under way: the calls since the load are the first
\* scen calls of BurstScript, and the zone they use holds the intermediate
\* with interval 10 minutes and 3 items per firing.
InBurstScenario ==
    /\ scen >= 1
    /\ call.zone >= 0
    /\ Len(CallZone.others) = 1
    /\ CallZone.others[1].sched_interval_mins = 10
    /\ CallZone.others[1].num_sched_items = 3

\* C3 as stated: call 1 draws from main, calls 2-4 from the intermediate,
\* calls 5 and 6 from main, calls 7 and 8 from the intermediate.
C3_BurstAsStated ==
    (InBurstScenario /\ scen <= 8) =>
       call.src = << "main", "ipls", "ipls", "ipls",
                     "main", "main", "ipls", "ipls" >>[scen]

\* C3, amended: call 1 draws from main, calls 2-4 from the intermediate, and
\* calls 5-9 from main: the fifth call sets last_scheduled to t0+10m+1s, so
\* the intermediate is not ready again at t0+19m nor at t0+20m+1s.
C3_BurstAsCoded ==
    InBurstScenario =>
       call.src = << "main", "ipls", "ipls", "ipls",
                     "main", "main", "main", "main", "main" >>[scen]

\* The whole scenario has run.
C3_ScenarioDone == InBurstScenario /\ scen = Len(BurstScript) /\ call.src = "main"

\* The sources in the order of the code, and the first of them that yields
\* an item on the last call (4: none does).
SourceOrder == << "ipls", "main", "fallback" >>
FirstYield ==
    IF call.can[1] = 0 THEN 1 ELSE IF call.can[2] = 0 THEN 2
    ELSE IF call.can[3] = 0 THEN 3 ELSE 4

\* C4: a call that got past the reload step and selected a zone returns an
\* error exactly when the selected intermediate (if any), the main and the
\* fallback playlist all yield nothing; the sources are tried in that order
\* up to the first that yields, and its item is the one returned.
C4_SourcesInOrder ==
    (ncalls > 0 /\ call.reload = 0 /\ call.zone >= 0) =>
       /\ (call.ret # 0) <=> (FirstYield = 4)
       /\ (call.ipls = -1) => call.can[1] # 0
       /\ call.tried = SubSeq(SourceOrder, 1, IF FirstYield = 4 THEN 3 ELSE FirstYield)
       /\ FirstYield < 4 =>
            /\ call.src = SourceOrder[FirstYield]
            /\ call.file = call.canfile[FirstYield]
            /\ call.file \in Files

\* A call whose selected intermediate and main playlist fail and whose item
\* comes from the fallback playlist.
C4_FallbackUsed ==
    /\ call.reload = 0 /\ call.ipls >= 0
    /\ call.can = << -1, -1, 0 >>
    /\ call.ret = 0 /\ call.src = "fallback"

C12_BeforeFirstZoneUsesFirst ==
    (ncalls > 0 /\ call.parsed = FALSE /\ call.reload = 0) =>
       LET tod == TimeOfDay(call.sched_time)
           ds == cfg.days[localtime(call.sched_time).wday + 1]
       IN  /\ (\A i \in 1..Len(ds) : tod < ZoneStart(ds[i])) =>
                 /\ call.nozone
                 /\ call.zone = 0
                 /\ call.ret = 0
                 /\ call.file # ""
           /\ (ZoneStart(ds[1]) = 0
                 /\ (Len(ds) >= 2 => tod < ZoneStart(ds[2]))) =>
                 /\ call.zone = 0
                 /\ call.ret = 0

\* A call at 05:59:59 of a day whose zones start at 06:00 and 18:00.
C12_EarlyCallServed ==
    /\ ncalls > 0 /\ call.reload = 0
    /\ TimeOfDay(call.sched_time) = 6 * 3600 - 1
    /\ Len(CallDay) = 2
    /\ ZoneStart(CallDay[1]) = 6 * 3600
    /\ call.nozone /\ call.zone = 0 /\ call.ret = 0

\* The intermediates (1-based) of a zone that are ready at t, and the first
\* of them whose burst is not exhausted (0: none).
IplsReady(others, t) ==
    { i \in 1..Len(others) : sched_is_ipls_ready(others[i], t) }
IplsFirst(others, t) ==
    LET S == { i \in IplsReady(others, t) : others[i].sched_items_pending # 0 }
    IN  IF S = { } THEN 0 ELSE CHOOSE i \in S : \A j \in S : i <= j

\* C13: a call that reaches a zone draws from at most one intermediate and
\* decrements only its pending counter: the first ready intermediate, in
\* declaration order, whose burst is not exhausted (an exhausted ready one
\* before it is only reset); if the draw from it fails the call goes on to
\* the main and then the fallback playlist, and no other intermediate is
\* touched.
C13_OneIntermediatePerCall ==
    [][ (ncalls' = ncalls + 1 /\ call'.zone >= 0 /\ ~call'.parsed) =>
          LET wd == localtime(call'.sched_time).wday + 1
              zi == call'.zone + 1
              o == cfg.days[wd][zi].others
              p == cfg'.days[wd][zi].others
              t == call'.sched_time
              sel == IplsFirst(o, t)
          IN  /\ call'.ipls = sel - 1
              /\ \A i \in 1..Len(o) :
                    IF i = sel
                    THEN p[i].sched_items_pending =
                            (IF o[i].sched_items_pending = -1
                             THEN o[i].num_sched_items
                             ELSE o[i].sched_items_pending) - 1
                    ELSE /\ p[i].curr_idx = o[i].curr_idx
                         /\ p[i].items = o[i].items
                         /\ p[i].sched_items_pending =
                               IF i \in IplsReady(o, t)
                                  /\ o[i].sched_items_pending = 0
                                  /\ (sel = 0 \/ i < sel)
                               THEN -1 ELSE o[i].sched_items_pending
              /\ call'.src = "ipls" =>
                    /\ sel > 0
                    /\ call'.can[1] = 0
                    /\ call'.file = call'.canfile[1]
                    /\ call'.file \in { o[sel].items[k] : k \in 1..Len(o[sel].items) }
              /\ (sel > 0 /\ call'.can[1] # 0) =>
                    /\ Len(call'.tried) >= 2
                    /\ call'.tried[2] = "main"
                    /\ call'.src \in { "main", "fallback", "none" }
              /\ sel = 0 => call'.src # "ipls"
      ]_vars

\* In a zone with two intermediates, both ready, the draw from the first
\* failed and the item came from the main playlist.
C13_FailedDrawFallsToMain ==
    /\ ncalls > 0 /\ call.zone >= 0
    /\ Len(CallZone.others) = 2
    /\ call.ipls = 0
    /\ call.can[1] # 0
    /\ sched_is_ipls_ready(CallZone.others[2], call.sched_time)
    /\ call.src = "main"

\* The intermediates (1-based) whose last_scheduled plus interval, as an
\* absolute instant, lies strictly before t.
IplsDue(others, t) ==
    { i \in 1..Len(others) :
         t > others[i].last_scheduled + others[i].sched_interval_mins * 60 }

\* C14: in every call sched_is_ipls_ready holds of an intermediate exactly
\* when the target is strictly later than last_scheduled plus the interval,
\* as absolute instants, also when that instant lies on the next day; the
\* intermediate the call selects is the first such one with a burst left.
C14_ReadyStrictlyAfterInterval ==
    [][ (ncalls' = ncalls + 1 /\ call'.zone >= 0 /\ ~call'.parsed) =>
          LET o == cfg.days[localtime(call'.sched_time).wday + 1][call'.zone + 1].others
              t == call'.sched_time
              cand == { i \in IplsDue(o, t) : o[i].sched_items_pending # 0 }
          IN  /\ \A i \in 1..Len(o) :
                    sched_is_ipls_ready(o[i], t) <=> i \in IplsDue(o, t)
              /\ call'.ipls = IF cand = { } THEN -1
                              ELSE (CHOOSE i \in cand : \A j \in cand : i <= j) - 1
      ]_vars

\* Last scheduled at 23:55:00 with an interval of 10 minutes, the
\* intermediate is selected by a call at 00:05:01 of the next day.
C14_ReadyAfterMidnight ==
    /\ ncalls > 0 /\ call.zone >= 0
    /\ call.sched_time = SecsPerDay + 5 * 60 + 1
    /\ call.ipls = 0
    /\ CallZone.others[1].sched_interval_mins = 10
    /\ CallZone.others[1].last_scheduled = LateLoadTime
    /\ call.src = "ipls"

\* The names in the playlist's items array.
PlsItemNames == [ i \in 1..Len(pls.items) |-> pls.items[i].name ]

\* C15: after pls_process or pls_reload_if_needed has succeeded, and until
\* the file is rewritten again, the items are exactly the entries of the current playlist file that passed the
\* readability check, none of them freed, and num_items is their number.
C15_ItemsAreCurrentEntries ==
    (plsop.op # "none" /\ plsop.reload >= 0 /\ ~plsop.crash
        /\ pls.last_mtime = plsfile.mtime) =>
       /\ PlsItemNames = ReadableEntries(plsfile.lines)
       /\ pls.num_items = Len(ReadableEntries(plsfile.lines))
       /\ \A i \in 1..Len(pls.items) : ~pls.items[i].freed
       /\ pls.items_ptr # "freed"

\* C16: pls_process fails on a playlist file, .pls or .m3u, without a
\* readable entry, so cfg_get_pls rejects it at load.
C16_EmptyPlaylistRejected ==
    (plsop.op = "load" /\ nplsops = 0 /\ ReadableEntries(plsfile.lines) = << >>) =>
       plsop.ret < 0

\* C17: after a sched_get_next_item call whose reload step re-parsed a
\* changed playlist file, the cursor was 0 after the reload and the item drawn
\* is the first playable entry of the new file.
C17_ReloadRewindsCursor ==
    (plsop.op = "next" /\ plsop.parsed /\ plsop.reload >= 0 /\ ~plsop.crash
        /\ pls.last_mtime = plsfile.mtime) =>
       /\ plsop.cursor = 0
       /\ plsop.ret = 0 =>
             /\ ~plsop.stale
             /\ ReadableEntries(plsfile.lines) # << >>
             /\ plsop.file = ReadableEntries(plsfile.lines)[1]

\* A step in which caller c enters fsp_stop: it either returns at once (the
\* caller moves on from its call site) or reaches the first pthread_join.
StopCallBegins(c) ==
    /\ stopper[c] = "no"
    /\ \/ stopper'[c] = "join_sched"
       \/ c = "main" /\ main_pc \in { "start_stop", "cleanup_stop" }
                     /\ main_pc' # main_pc
       \/ c = "sig" /\ sig_pc = "idle" /\ sig_pc' = "done"
       \/ c = "sched" /\ sched_pc = "stop" /\ sched_pc' = "done"
       \/ c = "dec" /\ dec_pc = "stop" /\ dec_pc' = "done"

\* C18: an fsp_stop call on a Stopped player changes nothing: the state
\* stays Stopped, the loop is not quit, no thread is signalled or joined; an
\* fsp_start call on a player that is not Stopped returns an error, creates
\* no thread and leaves the state as it is.
C18_StartStopIdempotent ==
    [][ /\ (state = "STOPPED" /\ \E c \in Callers : StopCallBegins(c)) =>
             /\ state' = "STOPPED"
             /\ loop_quit' = loop_quit
             /\ stopper' = stopper
             /\ \A c \in Callers : StopCallBegins(c) =>
                   /\ c # "sched" => sched_pc' = sched_pc
                   /\ c # "dec" => dec_pc' = dec_pc
        /\ (main_pc = "init" /\ main_pc' # "init" /\ state # "STOPPED") =>
             /\ main_pc' = "cleanup_stop"
             /\ state' = state
             /\ sched_pc' = "none" /\ dec_pc' = "none"
             /\ loop_quit' = loop_quit
      ]_vars

\* fsp_cleanup's fsp_stop has returned on a player that fsp_start's
\* fsp_stop had already stopped.
C18_StoppedTwice ==
    /\ main_pc = "free"
    /\ stop_ret.by = "main"
    /\ state = "STOPPED"
    /\ sched_pc = "done" /\ dec_pc = "done"
    /\ nloads > 0

\* C19: the dispatcher hands each signal it reads to every registered unit
\* before it reads the next one.  SIGINT and SIGTERM put the player into
\* fsp_stop (Stopping, or Stopped already) and, once that call has returned,
\* stop the endpoint (running cleared, server thread joined) and end the
\* dispatcher; SIGUSR1 sets the player state to Pausing and SIGUSR2 to
\* Resuming and leave the endpoint alone; any other signal changes neither
\* the player state nor the endpoint.
C19_SignalTable ==
    [][ /\ \A signo \in StopSignals :
             sig_thread(signo) =>
                /\ state' \in { "STOPPING", "STOPPED" }
                /\ sig_pc' \in { "int", "done" }
                /\ sd'.thread = "run"
        /\ sig_thread_meta =>
                /\ state' = state
                /\ ~ mh'.running
                /\ mh'.thread = "done"
                /\ sd'.thread = "done"
        /\ sig_thread("SIGUSR1") => state' = "PAUSING" /\ mh' = mh
        /\ sig_thread("SIGUSR2") => state' = "RESUMING" /\ mh' = mh
        /\ \A signo \in AllSignals \ (StopSignals \cup { "SIGUSR1", "SIGUSR2" }) :
             sig_thread(signo) => state' = state /\ mh' = mh
      ]_vars

\* SIGTERM reached a player that had loaded files: the player is Stopped by
\* the dispatcher's fsp_stop, the endpoint is stopped, the dispatcher ended.
C19_TermStoppedBoth ==
    /\ sd.thread = "done"
    /\ sd.signo = "SIGTERM"
    /\ ~ mh.running
    /\ mh.thread = "done"
    /\ state = "STOPPED"
    /\ stop_ret.by = "sig"
    /\ nloads > 0

\* C20: after a failed initialisation step main() runs its cleanup to the
\* end and returns a non-zero code: it returns no zero, and as long as it
\* has not returned (and the process was not killed) the program can take a
\* step by itself, without waiting for a signal from outside.
C20_FailedInitExitsNonZero ==
    mn.failed =>
        /\ mn.pc = "exit" => mn.ret # 0
        /\ mn.pc \notin { "exit", "crash" } => ENABLED MainStep

\* C21: the responses sent within one wall-clock second are identical,
\* whatever the player did between the requests: the response is formatted
\* at most once per second.
C21_OneResponsePerSecond ==
    \A i, j \in 1..Len(sent) :
        sent[i].at = sent[j].at => sent[i].body = sent[j].body

\* Two requests were served in one second and the second got the cached
\* body although the player had moved on.
C21_StaleWithinSecond ==
    \E i, j \in 1..Len(sent) :
        /\ i < j
        /\ sent[i].at = sent[j].at
        /\ sent[j].body = sent[i].body
        /\ sent[j].body # sent[j].fresh

\* The sequence t holds the entries of the sequence s, each exactly once.
IsPermutationOf(t, s) ==
    /\ Len(t) = Len(s)
    /\ \E p \in [ 1..Len(s) -> 1..Len(s) ] :
          /\ \A i, j \in 1..Len(s) : i # j => p[i] # p[j]
          /\ \A i \in 1..Len(s) : t[i] = s[p[i]]

\* C22: when pls_shuffle has returned, the number of items is what it was
\* and the items are a permutation of the items before the call; a
\* playlist of one entry is unchanged.
C22_ShuffleIsPermutation ==
    shuf.pc = "done" =>
        /\ IsPermutationOf(shuf.items, shuf.orig)
        /\ Len(shuf.orig) = 1 => shuf.items = shuf.orig

\* A playlist of three different entries came back in another order.
C22_ThreeReordered ==
    /\ shuf.pc = "done"
    /\ shuf.ret = 0
    /\ Len(shuf.orig) = MaxItems
    /\ \A i, j \in 1..MaxItems : i # j => shuf.orig[i] # shuf.orig[j]
    /\ shuf.items # shuf.orig

(***************************************************************************)
(* Properties of the gain of a track.                                      *)
(***************************************************************************)
\* The limit a track peak stands for: its reciprocal, unity without a peak.
PeakLimit(info) ==
    IF info.track_peak # 0 THEN (Unity * Unity) \div info.track_peak
    ELSE Unity

\* C23, as stated: with both tags the effective replay gain is
\* min(10^(track_gain/20), 1/track_peak), +6 dB with peak 0.8 giving 1.25;
\* with a peak of 0 (or none) the gain of the track gain is applied without
\* a limit, so that a positive track gain gives more than 1.0.
C23_NoPeakNoLimit ==
    trk.pc = "play" =>
       /\ (trk.info.track_peak # 0 /\ trk.info.track_gain # 0) =>
             trk.replaygain.replay_gain =
                 Min(powf10(trk.info.track_gain), PeakLimit(trk.info))
       /\ (trk.info.track_peak = 800 /\ trk.info.track_gain = 6) =>
             trk.replaygain.replay_gain = 1250
       /\ trk.info.track_peak = 0 =>
             /\ trk.replaygain.replay_gain = powf10(trk.info.track_gain)
             /\ trk.info.track_gain > 0 => trk.replaygain.replay_gain > Unity

\* C23, amended: the effective replay gain is min(10^(track_gain/20), limit),
\* the limit being 1/track_peak with a peak and 1.0 with a peak of 0 (or
\* none): +6 dB with peak 0.8 gives 1.25, and without a peak a positive
\* track gain gives exactly 1.0 while a negative one is applied as it is.
C23_ReplayGainLimited ==
    trk.pc = "play" =>
       /\ trk.replaygain.replay_gain =
             Min(powf10(trk.info.track_gain), PeakLimit(trk.info))
       /\ (trk.info.track_peak = 800 /\ trk.info.track_gain = 6) =>
             trk.replaygain.replay_gain = 1250
       /\ (trk.info.track_peak = 0 /\ trk.info.track_gain > 0) =>
             trk.replaygain.replay_gain = Unity
       /\ (trk.info.track_peak = 0 /\ trk.info.track_gain < 0) =>
             trk.replaygain.replay_gain = powf10(trk.info.track_gain)

\* A track with +6 dB and no peak has been set up and plays at gain 1.0.
C23_PositiveGainNoPeak ==
    /\ trk.pc = "play"
    /\ trk.info.track_gain = 6
    /\ trk.info.track_peak = 0
    /\ trk.replaygain.replay_gain = Unity
    /\ trk.chunks > 0
    /\ trk.gain_factor = Unity

\* C24: the fade gain of every chunk is within [0, 1]; it does not fall from
\* one chunk of the fade-in to the next, and from the first chunk of the
\* fade-out on it does not rise, up to the last sample of the file, also
\* when the file has more samples than total_samples.
C24_FadeEnvelope ==
    (trk.pc = "play" /\ trk.chunks > 0) =>
       /\ trk.last.gain >= 0
       /\ trk.last.gain <= Unity
       /\ (trk.chunks > 1 /\ trk.prev.seg = "in" /\ trk.last.seg = "in") =>
             trk.last.gain >= trk.prev.gain
       /\ (trk.chunks > 1 /\ trk.prev.seg = "out") =>
             trk.last.gain <= trk.prev.gain

(***************************************************************************)
(* Properties of the file slots and file_mutex.                            *)
(***************************************************************************)
WritesOf(slot) == { a \in fl.acc : a.slot = slot /\ a.op = "write" }

C26_NextWrittenUnderMutex ==
    /\ \A a \in WritesOf("next") : a.by = "sched" => a.held
    /\ \A a \in fl.acc : a.held => a.op # "read_partial"

\* C27: no thread does the file I/O of the schedule engine or of the media
\* loader while it holds file_mutex, so the decoder thread never waits for
\* file_mutex while a load is under way.
C27_NoLoadUnderMutex ==
    /\ \A a \in fl.acc : a.op = "io" => ~a.held
    /\ ~ ( fl.dec.pc = "lock" /\ fl.file_mutex = "sched"
           /\ fl.sched.pc \in { "get", "init", "open" } )

\* C28: every read of current and next by the endpoint's callback, that of
\* current.samples_played included, is made holding file_mutex.
C28_CallbackReadsUnderMutex ==
    \A a \in fl.acc : a.by = "http" => a.held

\* C29: every request for a new next made in the loop of the scheduler
\* thread is for the instant at which the thread was woken plus the
\* duration of the track that the promotion made current.
C29_AskAtWokenPlusCurrent ==
    fl.ask.made => fl.ask.sched_time = fl.ask.now + fl.ask.current

(***************************************************************************)
(* Properties of the output callback.                                      *)
(***************************************************************************)
\* The ring could be read: the state at entry was neither Paused nor
\* Stopped and the ring held the bytes asked for.
CallbackCanRead ==
    cbk.state \notin { "PAUSED", "STOPPED" } /\ cbk.space >= cbk.bytes

\* C30: for every buffer the sink hands out, the callback reads from the ring
\* only if the state is neither Paused nor Stopped and the ring holds the
\* bytes asked for; otherwise the buffer is filled with zeros and the read
\* position stays where it was; an underrun warning is logged only if the
\* state is Playing.
C30_ReadOrSilence ==
    (cbk.calls > 0 /\ cbk.buffer) =>
       /\ (cbk.emit = "ring" \/ cbk.read # 0) => CallbackCanRead
       /\ ~CallbackCanRead => (cbk.emit = "zeros" /\ cbk.read = 0)
       /\ cbk.warn = "underrun" => cbk.state = "PLAYING"

\* A callback found the player Playing and the ring short of a period: it
\* emitted zeros, moved nothing and logged the underrun.
C30_UnderrunWhilePlaying ==
    /\ cbk.calls > 0
    /\ cbk.buffer
    /\ cbk.state = "PLAYING"
    /\ cbk.space < cbk.bytes
    /\ cbk.emit = "zeros"
    /\ cbk.read = 0
    /\ cbk.warn = "underrun"

\* A day element that yields a day schedule: present, with at least one
\* zone, every zone with a main playlist, the Start hours strictly
\* increasing.
FileDayOk(e) ==
    /\ e.present
    /\ Len(e.zones) >= 1
    /\ \A i \in 1..Len(e.zones) : e.zones[i].main
    /\ \A i \in 2..Len(e.zones) : e.zones[i].h > e.zones[i - 1].h

\* C11: sched_init's cfg_process succeeds only on a file whose seven day
\* elements are all present, each with at least one zone, every zone with a
\* main playlist and the zone starts strictly increasing, and the config then
\* holds exactly those zones; on a file (valid XML) that fails one of these
\* it returns an error and leaves the config with no week schedule.
C11_LoadedWeekIsComplete ==
    call.parsed =>
       /\ call.ret = 0 =>
            /\ cfgfile.wellformed
            /\ \A d \in 0..6 : FileDayOk(cfgfile.week[d])
            /\ ~cfg.ws_null
            /\ Len(cfg.days) = 7
            /\ \A d \in 1..7 :
                  /\ Len(cfg.days[d]) >= 1
                  /\ Len(cfg.days[d]) = Len(cfgfile.week[d - 1].zones)
                  /\ \A i \in 1..Len(cfg.days[d]) :
                        /\ ~cfg.days[d][i].main_pls.null
                        /\ ZoneStart(cfg.days[d][i])
                              = cfgfile.week[d - 1].zones[i].h * 3600
                  /\ \A i \in 2..Len(cfg.days[d]) :
                        ZoneStart(cfg.days[d][i]) > ZoneStart(cfg.days[d][i - 1])
       /\ (cfgfile.wellformed /\ \E d \in 0..6 : ~FileDayOk(cfgfile.week[d])) =>
            /\ call.ret = -1
            /\ ~crashed
            /\ cfg.ws_null
            /\ cfg.days = << >>

\* A file with three zones a day has been loaded.
C11_ThreeZonesLoaded ==
    /\ call.parsed /\ call.ret = 0 /\ ncalls = 0
    /\ ~cfg.ws_null
    /\ \A d \in 1..7 : Len(cfg.days[d]) = 3


(***************************************************************************)
(* Properties of the player.                                               *)
(***************************************************************************)
\* The state graph: the edges the player state may take.
RunningStates == { "RESUMING", "PLAYING", "PAUSING", "PAUSED" }
StateEdges ==
    { << "STOPPED", "RESUMING" >>, << "RESUMING", "PLAYING" >>,
      << "PLAYING", "PAUSING" >>, << "PAUSING", "PAUSED" >>,
      << "PAUSED", "RESUMING" >>, << "STOPPING", "STOPPED" >> }
    \cup { << s, "STOPPING" >> : s \in RunningStates }

\* C5: the player state changes only along the edges of the state graph,
\* and while a state fade is under way only its completion (or a stop)
\* writes the state.
C5_StateGraphOnly ==
    [][ /\ state' # state => << state, state' >> \in StateEdges
        /\ (fader.active /\ fader'.active /\ state' # state)
              => state' = "STOPPING" ]_vars

\* C6: a state fade started by a pause request made while Playing has, at
\* its completion, moved the gain monotonically down to 0 and left the
\* state Paused; one started by a resume request made while Paused has moved
\* it monotonically up to 1 and left the state Playing.
C6_FadeCompletesAsStarted ==
    fade.done =>
       /\ (fade.dir = "out" /\ fade.from = "PLAYING")
             => (fade.mono /\ fade.last = 0 /\ fade.end = "PAUSED")
       /\ (fade.dir = "in" /\ fade.from = "PAUSED")
             => (fade.mono /\ fade.last = state_fade_samples_tot
                 /\ fade.end = "PLAYING")

\* C7: from the moment the state became Paused until a resume request, every
\* buffer the callback emits is silence.
C7_SilentWhilePaused == quiet => out_gain = 0

\* C8: whenever fsp_stop returns, both worker threads (the caller apart, if
\* it is one) have terminated, and fsp_cleanup releases nothing while a
\* worker thread is running.
C8_StopMeansWorkersGone ==
    /\ stop_ret.running = { }
    /\ freed => RunningWorkers = { }

\* C9: the readable bytes of the ring buffer stay between 0 and its
\* capacity, no write by the decoder stores fewer bytes than it was given,
\* and no read by the callback gets fewer bytes than it asked for.
C9_RingNeverOverrun ==
    /\ 0 <= jack_ringbuffer_read_space(ring)
    /\ jack_ringbuffer_read_space(ring) <= ring_size - 1
    /\ ~overrun
    /\ ~underread

\* The ring buffer is full to less than a period of room, the decoder waits
\* for space, and the callback has read audio from it.
C9_RingFull ==
    /\ dec_pc = "wait_space"
    /\ jack_ringbuffer_write_space(ring) < buffer_size
    /\ out_gain > 0


(***************************************************************************)
(* Properties of the counters and cursors of the playlists.                *)
(***************************************************************************)
\* The intermediate playlists of a config, as << day, zone, index >>
\* (1-based).
IplsOf(c) ==
    { << d, z, i >> \in (1..7) \X (1..3) \X (1..2) :
         /\ ~c.ws_null
         /\ z <= Len(c.days[d])
         /\ i <= Len(c.days[d][z].others) }
IplsAt(c, k) == c.days[k[1]][k[2]].others[k[3]]

PendingInRange(c) ==
    \A k \in IplsOf(c) :
       \/ IplsAt(c, k).sched_items_pending = -1
       \/ /\ 0 <= IplsAt(c, k).sched_items_pending
          /\ IplsAt(c, k).sched_items_pending <= IplsAt(c, k).num_sched_items

\* C31: after the config load and after every sched_get_next call, the
\* sched_items_pending of every intermediate playlist is -1 or lies in
\* 0..num_sched_items, and the count goes down only in a call that selected
\* that intermediate: the selected one goes from p (num_sched_items when it
\* was -1) to p - 1 >= 0, any other keeps its value or, exhausted and ready,
\* is re-armed from 0 to -1.
C31_PendingInRange ==
    /\ [] PendingInRange(cfg)
    /\ [][ (ncalls' = ncalls + 1 /\ call'.zone >= 0) =>
             LET base == IF call'.parsed
                         THEN cfg_process(cfg, cfgfile, now).cfg ELSE cfg
                 sel == << localtime(call'.sched_time).wday + 1,
                           call'.zone + 1, call'.ipls + 1 >>
             IN  /\ IplsOf(cfg') = IplsOf(base)
                 /\ \A k \in IplsOf(base) :
                       LET p == IplsAt(base, k).sched_items_pending
                           q == IplsAt(cfg', k).sched_items_pending
                           n == IplsAt(base, k).num_sched_items
                       IN  IF call'.ipls >= 0 /\ k = sel
                           THEN /\ p # 0
                                /\ q = (IF p = -1 THEN n ELSE p) - 1
                                /\ q >= 0
                           ELSE q = p \/ (p = 0 /\ q = -1)
       ]_vars

\* A burst of two or more items has been drawn to its end: the intermediate
\* selected by the last call has no item pending.
C31_BurstDrawnOut ==
    /\ ncalls > 0 /\ call.zone >= 0 /\ call.ipls >= 0
    /\ CallZone.others[call.ipls + 1].num_sched_items >= 2
    /\ CallZone.others[call.ipls + 1].sched_items_pending = 0


\* C32: after every load, reload and item draw the cursor of the playlist
\* lies within 0..num_items.
C32_CursorInRange ==
    plsop.crash \/ (0 <= pls.curr_idx /\ pls.curr_idx <= pls.num_items)


(***************************************************************************)
(* Properties of the notifications between the player's threads.  A        *)
(* pthread_cond_signal that finds no thread inside pthread_cond_wait is    *)
(* lost; each property names the state in which a thread waits for a       *)
(* signal that was sent before it began to wait.                           *)
(***************************************************************************)
\* C33: after every promotion the scheduler thread is woken and loads a new
\* next, whatever the interleaving of the decoder's signal with the
\* scheduler thread's way to its pthread_cond_wait: while the player runs,
\* the scheduler thread is never inside that wait with next empty (the
\* promotion that emptied next is the only signal that would wake it).
C33_PromotionWakesScheduler ==
    ~(/\ sched_pc = "wait"
      /\ ~next.loaded
      /\ state \notin { "STOPPING", "STOPPED" })

\* C34: once the scheduler thread has loaded the first two files and
\* signalled decoder_cond, the decoder thread starts decoding, whatever the
\* interleaving: the decoder thread is never inside its start-up wait while
\* the scheduler thread, both files loaded, waits for a promotion.
C34_StartSignalReachesDecoder ==
    ~(/\ dec_pc = "wait_start"
      /\ sched_pc = "wait"
      /\ current.loaded /\ next.loaded
      /\ state \notin { "STOPPING", "STOPPED" })

\* C35: fsp_stop terminates: once it has set Stopping and sent its three
\* signals, both workers leave their loops and are joined.  No caller waits
\* in pthread_join for a worker that entered a pthread_cond_wait after the
\* signals were sent.
C35_StopTerminates ==
    \A c \in Callers :
       /\ (stopper[c] = "join_sched" /\ c # "sched") => sched_pc # "wait"
       /\ (stopper[c] = "join_dec" /\ c # "dec") =>
             dec_pc \notin { "wait_start", "wait_space" }

\* C38: the scheduler thread loads into next only when next is empty, so a
\* loaded track that was not promoted yet is never overwritten.
C38_LoadsIntoEmptyNext ==
    [][ (nloads' = nloads + 1 /\ sched_pc \in { "load2", "woken" }
           /\ sched_pc' = "loop") => ~next.loaded ]_vars

\* C40: whenever the scheduler thread has terminated, the state was moved to
\* Stopping (and on to Stopped) and the audio loop was told to quit.
C40_SchedulerExitStopsPlayer ==
    sched_pc = "done" => (state \in { "STOPPING", "STOPPED" } /\ loop_quit)


(***************************************************************************)
(* Properties of the memory the player's file slots borrow.                *)
(***************************************************************************)
\* What the audiofile info filled by the last call borrows
\* (media_loader.c:190-194): the item string of a playlist, the name of the
\* zone and the fader of the playlist, all of them inside the week schedule
\* that was parsed from the file version c.last_mtime.
BorrowedFrom(c, cl) ==
    [ parse |-> c.last_mtime, zone |-> cl.zone, src |-> cl.src, file |-> cl.file ]

\* That week schedule is still allocated in config c: cfg_reload_if_needed
\* frees it (cfg_cleanup) before it parses a new version of the file.
StillAllocated(b, c) == ~c.ws_null /\ c.last_mtime = b.parse

\* C36: the info of the current and next slots never points to freed
\* memory.  The player makes a sched_get_next call while it holds, as
\* current or next, the track the previous successful call returned: what
\* that track borrows is still allocated when the call returns.
C36_BorrowedInfoStaysValid ==
    [][ (ncalls' = ncalls + 1 /\ ncalls > 0 /\ call.ret = 0) =>
           StillAllocated(BorrowedFrom(cfg, call), cfg') ]_vars


\* C37: sched_get_next never uses an absent week schedule: every call that
\* gets past its reload step finds a week schedule in the config, also after
\* an earlier reload failed.
C37_WeekSchedulePresent ==
    (ncalls > 0 /\ call.reload >= 0) => (~cfg.ws_null /\ ~call.crash)


\* C39: on a playlist that is not shuffled, has n >= 2 entries, all readable
\* and accepted by the probe, and whose file is not rewritten, the draws go
\* round the items: a draw with the cursor at c returns items[c] and moves
\* the cursor to c + 1, and only a draw with the cursor at n wraps to
\* items[0]; so n draws from cursor 0 return items[0], ..., items[n-1].
C39_DrawsGoRound ==
    [][ (/\ nplsops' = nplsops + 1 /\ plsop'.op = "next"
         /\ plsfile' = plsfile /\ plsfile.mtime = pls.last_mtime
         /\ ~pls.shuffle
         /\ pls.num_items >= 2
         /\ pls.num_items = Len(plsfile.lines)
         /\ \A i \in 1..pls.num_items : ~pls.items[i].freed)
        =>
        (/\ plsop'.ret = 0
         /\ plsop'.file = pls.items[(pls.curr_idx % pls.num_items) + 1].name
         /\ pls'.curr_idx = (pls.curr_idx % pls.num_items) + 1)
      ]_vars

=============================================================================
